---- MODULE Spec2Model ----
(***************************************************************************)
(* Commission-Management-System: the relational reward calculation         *)
(* (src/services/admin.service.js over the Sequelize tables), the Mongoose *)
(* Commission and Project documents with their pre-save hooks.             *)
(***************************************************************************)
EXTENDS Integers, Sequences, FiniteSets, TLC

\* ------------------------------------------------------------------ bounds
MaxMembers == 3
\* audit entries written before the AI routes take no further request
MaxAuditLog == 2
\* failed logins counted per account
MaxLoginAttempts == 2

UserIds == 1..2
PolicyIds == {1}
Pools == {100, 900000}
\* two HTTP clients, each posting one calculate-reward request
Reqs == {"r1", "r2"}
\* the ids the projects table hands out; a request that names one before the
\* project is created names a project that does not exist
ProjectIds == 1..2

Null == "null"

\* the relational tables and the calculate-reward requests in flight
VARIABLES projects, project_members, reward_calculations, rewards, req
\* the Commission collection and the clients saving Commission documents
VARIABLES commissions, cli

\* the Project document: its milestones' isCompleted flags, progress.actual,
\* and the progress.actual the document held when its last save began
VARIABLES milestones, progressActual, progressBefore

\* the User collection (role of each account, "absent" when there is none)
\* and one HTTP request to the Express application
VARIABLES accounts, http

\* the User documents by (lower-case) email, and each POST /auth/login request
VARIABLES userDocs, login
\* the browser's localStorage token, the AuthProvider's reducer state, each
\* auth operation's API call, and whether a redirect to /login is pending
VARIABLES localStorage, authState, authOp, navigating
\* the users table, and each run of the GoogleStrategy verify callback
VARIABLES usersTable, google
\* the Redis keyspace (the stored string and the value setKey was given), and
\* the last getKey call
VARIABLES redisStore, lastGet
rewardVars == <<projects, project_members, reward_calculations, rewards, req>>
commissionVars == <<commissions, cli>>
projectVars == <<milestones, progressActual, progressBefore>>
\* the requests in flight to the relational API's controllers
VARIABLES rel

\* the frontend: localStorage's token and the requests made through the api
\* instance
VARIABLES storedToken, fe

\* the AI routes: the Project rows, the audit log and one request
VARIABLES aiProjects, auditLog, ai
\* the weighted scores in use: the role whose KPI weights were looked up, a
\* Commission's metrics with its totalScore and projectScore virtuals, and
\* the KPI weights generateKPIsForMember returned
VARIABLES wt
\* the server process (running or exited, with its code), the redis module's
\* redisClient, whether connectRedis / connectDB are awaiting their connect,
\* and one call of a redis helper
VARIABLES proc, redisClient, connecting, call
\* the mongoose connection, the process's SIGINT listeners in registration
\* order, and the messages logged while shutting down
VARIABLES shutdown

httpVars == <<accounts, http>>
relVars == <<rel>>
feVars == <<storedToken, fe>>
aiVars == <<aiProjects, auditLog, ai>>
wtVars == <<wt>>
infraVars == <<proc, redisClient, connecting, call, shutdown>>
loginVars == <<userDocs, login>>
authVars == <<localStorage, authState, authOp, navigating>>
googleVars == <<usersTable, google>>
storeVars == <<redisStore, lastGet>>
vars ==
  <<rewardVars,
    commissionVars,
    projectVars,
    httpVars,
    relVars,
    feVars,
    aiVars,
    wtVars,
    infraVars,
    loginVars,
    authVars,
    googleVars,
    storeVars>>
exceptReward == <<commissionVars, projectVars, httpVars, relVars, feVars, aiVars, wtVars, infraVars, loginVars, authVars, googleVars, storeVars>>
exceptCommission == <<rewardVars, projectVars, httpVars, relVars, feVars, aiVars, wtVars, infraVars, loginVars, authVars, googleVars, storeVars>>
exceptProject == <<rewardVars, commissionVars, httpVars, relVars, feVars, aiVars, wtVars, infraVars, loginVars, authVars, googleVars, storeVars>>
exceptHttp == <<rewardVars, commissionVars, projectVars, relVars, feVars, aiVars, wtVars, infraVars, loginVars, authVars, googleVars, storeVars>>
exceptRel == <<rewardVars, commissionVars, projectVars, httpVars, feVars, aiVars, wtVars, infraVars, loginVars, authVars, googleVars, storeVars>>
exceptFe == <<rewardVars, commissionVars, projectVars, httpVars, relVars, aiVars, wtVars, infraVars, loginVars, authVars, googleVars, storeVars>>
exceptAi == <<rewardVars, commissionVars, projectVars, httpVars, relVars, feVars, wtVars, infraVars, loginVars, authVars, googleVars, storeVars>>
exceptWt == <<rewardVars, commissionVars, projectVars, httpVars, relVars, feVars, aiVars, infraVars, loginVars, authVars, googleVars, storeVars>>
exceptInfra == <<rewardVars, commissionVars, projectVars, httpVars, relVars, feVars, aiVars, wtVars, loginVars, authVars, googleVars, storeVars>>
exceptLogin == <<rewardVars, commissionVars, projectVars, httpVars, relVars, feVars, aiVars, wtVars, infraVars, authVars, googleVars, storeVars>>
exceptAuth == <<rewardVars, commissionVars, projectVars, httpVars, relVars, feVars, aiVars, wtVars, infraVars, loginVars, googleVars, storeVars>>
exceptGoogle == <<rewardVars, commissionVars, projectVars, httpVars, relVars, feVars, aiVars, wtVars, infraVars, loginVars, authVars, storeVars>>
exceptStore == <<rewardVars, commissionVars, projectVars, httpVars, relVars, feVars, aiVars, wtVars, infraVars, loginVars, authVars, googleVars>>

\* ------------------------------------------------------- exact quotients
\* A JavaScript number that is a quotient of two integers is kept as a
\* reduced fraction [num, den]; the IEEE rounding of the quotient is the
\* "rounding epsilon" the specification speaks of.
RECURSIVE GCD(_, _)
GCD(a, b) == IF b = 0 THEN a ELSE GCD(b, a % b)

Frac(n, d) ==
  LET g == GCD(n, d) IN
  IF g = 0 THEN [num |-> 0, den |-> 1] ELSE [num |-> n \div g, den |-> d \div g]

FracAdd(x, y) == Frac(x.num * y.den + y.num * x.den, x.den * y.den)

\* ------------------------------------------------------------- the tables
\* rows of a table are kept in insertion order; the autoIncrement id of a row
\* is its position (no operation of the service deletes a row)
InitReq ==
  [pc |-> "idle", data |-> Null, members |-> <<>>, perMember |-> Null,
   calculation |-> 0, i |-> 0, res |-> "none"]

\* projects.findByPk(id, { include: project_members }): the project's member
\* rows, in primary-key order
MembersWrong(pid) == project_members
MembersOf(pid) == SelectSeq(project_members, LAMBDA m : m.project_id = pid)

\* const perMember = data.total_reward_pool / (members.length || 1)
PerMemberWrong(pool, members) == Frac(pool, Len(members) + 1)
PerMember(pool, members) ==
  Frac(pool, IF Len(members) = 0 THEN 1 ELSE Len(members))

\* the row handed to models.reward_calculations.create
NewCalculationReused(data) ==
  [id |-> 1, project_id |-> data.project_id,
   reward_policy_id |-> data.reward_policy_id,
   total_reward_pool |-> data.total_reward_pool, status |-> "PRELIMINARY"]
NewCalculationWrong(data) ==
  [id |-> Len(reward_calculations) + 1, project_id |-> data.project_id,
   reward_policy_id |-> data.reward_policy_id,
   total_reward_pool |-> data.total_reward_pool, status |-> "PAID"]
NewCalculation(data) ==
  [id |-> Len(reward_calculations) + 1, project_id |-> data.project_id,
   reward_policy_id |-> data.reward_policy_id,
   total_reward_pool |-> data.total_reward_pool, status |-> "PRELIMINARY"]

\* the row handed to models.rewards.create for member m
NewReward(calcId, m, perMember) ==
  [id |-> Len(rewards) + 1, calculation_id |-> calcId, user_id |-> m.user_id,
   amount |-> perMember]

\* what calculateReward leaves in the rewards table when the k-th create
\* throws: nothing is undone
RewardsAfterFailureWrong(calcId) ==
  SelectSeq(rewards, LAMBDA w : w.calculation_id # calcId)
RewardsAfterFailure(calcId) == rewards

\* ---- the Express application's accounts and request
AccountIds == {"u1", "u2"}
Roles == {"admin", "manager", "staff", "partner"}
Mounts == {"auth", "admin", "manager", "partner", "staff", "ai"}
\* req.user before any middleware has set it
NoUser == [id |-> "none", role |-> "none"]
\* no request in flight: the mount and route asked for, the Authorization
\* header, the result of User.findById, req.user, whether the route handler
\* was invoked, the response status and its success flag
InitHttp ==
  [pc |-> "idle", mount |-> "none", route |-> "none",
   token |-> [kind |-> "none", userId |-> "none"], found |-> "none",
   user |-> NoUser, ran |-> FALSE, status |-> 0, success |-> FALSE]

\* ---- a request to a controller of the relational API: the handler, where
\* it stands, the responses sent for it and the status of the last one
InitRel == [pc |-> "idle", handler |-> "none", responses |-> 0, status |-> 0]

\* ---- a request made through the frontend's api instance: where it stands,
\* config._retry, the times it was sent, the refresh calls made for it, the
\* token localStorage held when the interceptor last decided about a refresh
InitFe ==
  [pc |-> "idle", retry |-> FALSE, sends |-> 0, refreshes |-> 0,
   tokenSeen |-> "none"]

\* ---- a request to an AI route: the route, its body, the candidates read,
\* what Project.findByPk gave (found, missing, error), the computed result
\* (userCapabilities and teamRecommendations), the audit entries it wrote
NoBody == [projectId |-> "none", roles |-> <<>>, rolesIsArray |-> FALSE, teamSize |-> 0]
InitAi ==
  [pc |-> "idle", route |-> "none", body |-> NoBody, lookup |-> "none",
   users |-> <<>>, caps |-> <<>>, recs |-> <<>>, computed |-> FALSE,
   audits |-> 0, status |-> 0, success |-> FALSE]

\* ---- nothing scored yet: no role looked up, the schema's default metrics
\* (all 0), no KPIs generated
InitWt ==
  [role |-> "none", roleWeights |-> <<>>,
   performance |-> [k \in 1..5 |-> 0], project |-> [k \in 1..3 |-> 0],
   totalScore |-> 0, projectScore |-> 0,
   level |-> "none", priority |-> "none", kpiWeights |-> <<>>]

\* ---- no redis helper called yet: the helper, the state of redisClient when
\* it was called, what it returned and whether it threw to its caller
InitCall ==
  [pc |-> "idle", helper |-> "none", client |-> "none", result |-> "none",
   threw |-> FALSE]

\* ---- server.js has registered its SIGINT listener; mongoose is not connected
InitShutdown ==
  [mongoose |-> "disconnected", listeners |-> <<"server">>, log |-> <<>>,
   sigintWhenConnected |-> FALSE]

\* ---- the User collection: an active account, a locked one, an inactive one,
\* one that is both; every other email has no document
NoDoc ==
  [exists |-> FALSE, id |-> "none", isLocked |-> FALSE, isActive |-> FALSE,
   password |-> "none", loginAttempts |-> 0]
UserDoc(id, locked, active) ==
  [exists |-> TRUE, id |-> id, isLocked |-> locked, isActive |-> active,
   password |-> "right", loginAttempts |-> 0]
StoredEmails == {"ok@x", "locked@x", "inactive@x", "both@x", "unknown@x"}
InitUserDocs ==
  [e \in StoredEmails |->
     CASE e = "ok@x" -> UserDoc("u1", FALSE, TRUE)
       [] e = "locked@x" -> UserDoc("u2", TRUE, TRUE)
       [] e = "inactive@x" -> UserDoc("u3", FALSE, FALSE)
       [] e = "both@x" -> UserDoc("u4", TRUE, FALSE)
       [] OTHER -> NoDoc]
\* no login request yet; compared / incremented / reset record the calls of
\* comparePassword, incLoginAttempts and resetLoginAttempts
InitLogin ==
  [pc |-> "idle", email |-> "none", password |-> "none", user |-> NoDoc,
   status |-> 0, success |-> FALSE, message |-> "none", token |-> "none",
   compared |-> FALSE, incremented |-> FALSE, reset |-> FALSE]

\* ---- AuthProvider: the reducer's initial state, read when the page loads
initialState(token) ==
  [user |-> "null", token |-> token, isAuthenticated |-> FALSE,
   loading |-> TRUE]
\* checkAuth (the mount effect) and the functions of the context value that
\* dispatch
Ops == {"checkAuth", "login", "logout", "updateProfile", "refreshToken"}
\* bearer: the request interceptor found a token to send with the call
IdleOp == [pc |-> "idle", retry |-> FALSE, bearer |-> FALSE]

\* ---- the users table holds one account that was not created by a Google
\* login; no verify callback has run
NoRow == [id |-> 0, email |-> "none", system_role |-> "none"]
InitUsers == <<[id |-> 1, email |-> "admin@x", system_role |-> "ADMIN"]>>
InitGoogle ==
  [pc |-> "idle", email |-> "none", found |-> NoRow, user |-> NoRow,
   err |-> FALSE, created |-> FALSE]

\* ---- JavaScript values as [type, text]: text is the content of a string
\* and the JSON text of anything else; the Redis keyspace is empty
JsNull == [type |-> "null", text |-> "null"]
Keys == {"k1", "k2"}
NoEntry == [stored |-> "nil", value |-> JsNull]
InitGet == [pc |-> "idle", key |-> "none", ok |-> FALSE, result |-> JsNull]

\* the clients that save Commission documents
Clients == {"c1", "c2"}
InitCli == [pc |-> "idle", doc |-> <<>>, before |-> 0, id |-> 0, res |-> "none"]

Init ==
  /\ projects = {}
  /\ project_members = <<>>
  /\ reward_calculations = <<>>
  /\ rewards = <<>>
  /\ req = [r \in Reqs |-> InitReq]
  /\ commissions = <<>>
  /\ cli = [c \in Clients |-> InitCli]
  /\ milestones = <<>>
  /\ progressActual = 0
  /\ progressBefore = 0
  /\ accounts = [a \in AccountIds |-> "absent"]
  /\ http = InitHttp
  /\ rel = [r \in Reqs |-> InitRel]
  /\ storedToken = "none"
  /\ fe = [r \in Reqs |-> InitFe]
  /\ aiProjects = {}
  /\ auditLog = <<>>
  /\ ai = InitAi
  /\ wt = InitWt
  /\ proc = [running |-> TRUE, code |-> 0]
  /\ redisClient = "null"
  /\ connecting = [redis |-> FALSE, db |-> FALSE]
  /\ call = InitCall
  /\ shutdown = InitShutdown
  /\ userDocs = InitUserDocs
  /\ login = [r \in Reqs |-> InitLogin]
  /\ localStorage = "null"
  /\ authState = initialState("null")
  /\ authOp = [op \in Ops |-> IF op = "checkAuth" THEN [IdleOp EXCEPT !.pc = "effect"] ELSE IdleOp]
  /\ navigating = FALSE
  /\ usersTable = InitUsers
  /\ google = [r \in Reqs |-> InitGoogle]
  /\ redisStore = [k \in Keys |-> NoEntry]
  /\ lastGet = InitGet

\* ------------------------------------------------ admin.service operations
\* createProject: one INSERT, the new row gets the next id
CreateProject ==
  /\ Cardinality(projects) < Cardinality(ProjectIds)
  /\ projects' = projects \cup {Cardinality(projects) + 1}
  /\ UNCHANGED <<project_members, reward_calculations, rewards, req>>
  /\ UNCHANGED exceptReward

\* createInputData: models.project_members.create(data); the foreign key on
\* project_id rejects a row for a project that does not exist
CreateInputData(pid, uid) ==
  /\ Len(project_members) < MaxMembers
  /\ pid \in projects
  /\ project_members' = Append(project_members,
        [id |-> Len(project_members) + 1, project_id |-> pid, user_id |-> uid])
  /\ UNCHANGED <<projects, reward_calculations, rewards, req>>
  /\ UNCHANGED exceptReward

\* POST /calculate-reward arrives: the controller calls the service
CalculateRewardStart(r, data) ==
  /\ req[r].pc = "idle"
  /\ req' = [req EXCEPT ![r] = [InitReq EXCEPT !.pc = "findProject", !.data = data]]
  /\ UNCHANGED <<projects, project_members, reward_calculations, rewards>>
  /\ UNCHANGED exceptReward

\* await models.projects.findByPk(...): throws (ok = FALSE), finds nothing,
\* or yields the project with its members; perMember is computed in the same
\* continuation
CalculateRewardFind(r, ok) ==
  /\ req[r].pc = "findProject"
  /\ LET data == req[r].data IN
     req' = [req EXCEPT ![r] =
        IF ~ok THEN [@ EXCEPT !.pc = "done", !.res = "500"]
        ELSE IF data.project_id \notin projects
          THEN [@ EXCEPT !.pc = "done", !.res = "notfound"]
        ELSE [@ EXCEPT !.pc = "createCalculation",
                       !.members = MembersOf(data.project_id),
                       !.perMember = PerMember(data.total_reward_pool,
                                               MembersOf(data.project_id))]]
  /\ UNCHANGED <<projects, project_members, reward_calculations, rewards>>
  /\ UNCHANGED exceptReward

\* await models.reward_calculations.create(...): on success the loop starts;
\* with no members the function returns at once
CalculateRewardCreateCalculation(r, ok) ==
  /\ req[r].pc = "createCalculation"
  /\ IF ~ok
       THEN /\ req' = [req EXCEPT ![r] = [@ EXCEPT !.pc = "done", !.res = "500"]]
            /\ UNCHANGED reward_calculations
       ELSE LET c == NewCalculation(req[r].data) IN
            /\ reward_calculations' = Append(reward_calculations, c)
            /\ req' = [req EXCEPT ![r] =
                 IF Len(req[r].members) = 0
                   THEN [@ EXCEPT !.pc = "done", !.res = "ok", !.calculation = c.id]
                   ELSE [@ EXCEPT !.pc = "createReward", !.calculation = c.id, !.i = 1]]
  /\ UNCHANGED <<projects, project_members, rewards>>
  /\ UNCHANGED exceptReward

\* await models.rewards.create(...) for member i: on success the loop goes on
\* or the function returns; on failure the exception reaches the controller's
\* catch, which answers 500
CalculateRewardCreateReward(r, ok) ==
  /\ req[r].pc = "createReward"
  /\ LET q == req[r] IN
     IF ~ok
       THEN /\ rewards' = RewardsAfterFailure(q.calculation)
            /\ req' = [req EXCEPT ![r] = [@ EXCEPT !.pc = "done", !.res = "500"]]
       ELSE /\ rewards' = Append(rewards,
                 NewReward(q.calculation, q.members[q.i], q.perMember))
            /\ req' = [req EXCEPT ![r] =
                 IF q.i = Len(q.members)
                   THEN [@ EXCEPT !.pc = "done", !.res = "ok"]
                   ELSE [@ EXCEPT !.i = q.i + 1]]
  /\ UNCHANGED <<projects, project_members, reward_calculations>>
  /\ UNCHANGED exceptReward

RewardData ==
  [project_id : ProjectIds, reward_policy_id : PolicyIds, total_reward_pool : Pools]

NextReward ==
  \/ CreateProject
  \/ \E pid \in ProjectIds, uid \in UserIds : CreateInputData(pid, uid)
  \/ \E r \in Reqs, data \in RewardData : CalculateRewardStart(r, data)
  \/ \E r \in Reqs, ok \in BOOLEAN : CalculateRewardFind(r, ok)
  \/ \E r \in Reqs, ok \in BOOLEAN : CalculateRewardCreateCalculation(r, ok)
  \/ \E r \in Reqs, ok \in BOOLEAN : CalculateRewardCreateReward(r, ok)

SpecReward == Init /\ [][NextReward]_vars

\* --------------------------------------------------- the Commission model
\* A document is a function from field names to values.  Of the schema's
\* paths the model keeps the unique-index key, the amounts and the status;
\* project, role, the metric scores and the sub-document arrays take no part
\* in the hook or the index.
Statuses ==
  {"draft", "calculated", "pending_approval", "approved", "paid", "disputed"}
BonusFields ==
  {"performanceBonus", "projectBonus", "qualityBonus", "innovationBonus"}
\* the paths with a schema default, and the default
Defaulted ==
  [performanceBonus |-> 0, projectBonus |-> 0, qualityBonus |-> 0,
   innovationBonus |-> 0, totalBonus |-> 0, adjustmentAmount |-> 0]
RequiredFields == {"year", "month", "employee", "baseSalary", "finalAmount"}
CommissionFields == RequiredFields \cup DOMAIN Defaulted \cup {"status"}

\* new Commission(data): absent paths take their schema default
WithDefaults(data) ==
  [f \in DOMAIN data \cup DOMAIN Defaulted \cup {"status"} |->
     IF f \in DOMAIN data THEN data[f]
     ELSE IF f = "status" THEN "draft" ELSE Defaulted[f]]

\* the schema's validators for one path
ValidPath(d, f) ==
  CASE f = "year" -> d[f] >= 2020
    [] f = "month" -> d[f] >= 1 /\ d[f] <= 12
    [] f = "employee" -> TRUE
    [] f = "adjustmentAmount" -> TRUE
    [] f = "status" -> d[f] \in Statuses
    [] OTHER -> d[f] >= 0

\* validation of a new document: every required path is present and every
\* path passes its validators
ValidateNew(d) ==
  /\ RequiredFields \subseteq DOMAIN d
  /\ \A f \in DOMAIN d : ValidPath(d, f)

\* validation of a loaded document: the modified paths
ValidateModified(d, paths) == \A f \in paths : ValidPath(d, f)

\* commissionSchema.pre('save'): finalAmount is assigned first, from the
\* totalBonus the document holds at that moment, then totalBonus is recomputed
PreSaveWrong(d) ==
  [d EXCEPT
     !["finalAmount"] = d["baseSalary"] + d["totalBonus"] + d["adjustmentAmount"],
     !["totalBonus"] = d["performanceBonus"] + d["projectBonus"] + d["qualityBonus"]]
PreSave(d) ==
  [d EXCEPT
     !["finalAmount"] = d["baseSalary"] + d["totalBonus"] + d["adjustmentAmount"],
     !["totalBonus"] = d["performanceBonus"] + d["projectBonus"]
                         + d["qualityBonus"] + d["innovationBonus"]]

SameKey(d, e) ==
  /\ d["year"] = e["year"]
  /\ d["month"] = e["month"]
  /\ d["employee"] = e["employee"]

\* the unique index { period.year, period.month, employee }: an insert of a
\* key the collection already holds is refused (E11000)
DuplicateKeyWrong(d) == FALSE
DuplicateKey(d) == \E k \in 1..Len(commissions) : SameKey(commissions[k], d)

\* the caller's changes applied to a loaded document
Modified(d, ch) == [f \in DOMAIN d |-> IF f \in DOMAIN ch THEN ch[f] ELSE d[f]]

\* new Commission(data).save(): validation runs first, then the pre-save
\* hook; the insert is the next step.  before: the totalBonus the document
\* held when the hook started
CommissionCreate(c, data) ==
  /\ cli[c].pc \in {"idle", "done"}
  /\ LET d == WithDefaults(data) IN
     cli' = [cli EXCEPT ![c] =
       IF ValidateNew(d)
         THEN [pc |-> "insert", doc |-> PreSave(d), before |-> d["totalBonus"],
               id |-> 0, res |-> "none"]
         ELSE [pc |-> "done", doc |-> <<>>, before |-> 0, id |-> 0,
               res |-> "ValidationError"]]
  /\ UNCHANGED commissions
  /\ UNCHANGED exceptCommission

\* the insert reaches the collection: the unique index admits or refuses it
CommissionInsert(c) ==
  /\ cli[c].pc = "insert"
  /\ IF DuplicateKey(cli[c].doc)
       THEN /\ cli' = [cli EXCEPT ![c] =
                 [@ EXCEPT !.pc = "done", !.res = "E11000", !.id = 0]]
            /\ UNCHANGED commissions
       ELSE /\ commissions' = Append(commissions, cli[c].doc)
            /\ cli' = [cli EXCEPT ![c] =
                 [@ EXCEPT !.pc = "done", !.res = "ok", !.id = Len(commissions) + 1]]
  /\ UNCHANGED exceptCommission

\* a stored document is loaded, changed by the caller and saved: validation
\* of the modified paths, the pre-save hook, the update
CommissionSave(c, id, ch) ==
  /\ cli[c].pc \in {"idle", "done"}
  /\ id \in 1..Len(commissions)
  /\ LET d == Modified(commissions[id], ch) IN
     IF ValidateModified(d, DOMAIN ch)
       THEN /\ commissions' = [commissions EXCEPT ![id] = PreSave(d)]
            /\ cli' = [cli EXCEPT ![c] =
                 [pc |-> "done", doc |-> <<>>, before |-> d["totalBonus"],
                  id |-> id, res |-> "ok"]]
       ELSE /\ cli' = [cli EXCEPT ![c] =
                 [pc |-> "done", doc |-> <<>>, before |-> 0, id |-> id,
                  res |-> "ValidationError"]]
            /\ UNCHANGED commissions
  /\ UNCHANGED exceptCommission

\* ---- inputs of the amounts specification: one period and employee, the
\* amounts free
Bonuses == {0, 1}
Salaries == {10, 20}
Adjustments == {-5, 0, 5}
\* a totalBonus the caller writes into the document; no sum of bonuses
StaleTotals == {7}

AmountData ==
  LET full == [year : {2024}, month : {1}, employee : {1}, baseSalary : {10},
               performanceBonus : Bonuses, projectBonus : Bonuses,
               qualityBonus : Bonuses, innovationBonus : Bonuses,
               finalAmount : {0}]
      one == [year |-> 2024, month |-> 1, employee |-> 1, baseSalary |-> 20,
              performanceBonus |-> 1, projectBonus |-> 1, qualityBonus |-> 1,
              innovationBonus |-> 1, finalAmount |-> 0]
  IN full
     \cup {[f \in DOMAIN one \ {"finalAmount"} |-> one[f]]}
     \cup {[f \in DOMAIN one \cup {"totalBonus"} |->
              IF f = "totalBonus" THEN t ELSE one[f]] : t \in StaleTotals}

\* the _id a save names; one document exists at most for one period and employee
DocIds == {1}
Change(f, v) == [x \in {f} |-> v]
AmountChanges ==
  {Change(f, v) : f \in BonusFields, v \in Bonuses}
    \cup {Change("baseSalary", v) : v \in Salaries \cup {-1}}
    \cup {Change("adjustmentAmount", v) : v \in Adjustments}
    \cup {Change("totalBonus", t) : t \in StaleTotals}
    \cup {Change("status", v) : v \in Statuses}

NextCommission ==
  \/ \E data \in AmountData : CommissionCreate("c1", data)
  \/ CommissionInsert("c1")
  \/ \E id \in DocIds, ch \in AmountChanges : CommissionSave("c1", id, ch)

SpecCommission == Init /\ [][NextCommission]_vars

\* ---- inputs of the index specification: two clients create documents for
\* two months and two employees
KeyData ==
  [year : {2024}, month : {1, 2}, employee : {1, 2}, baseSalary : {10},
   finalAmount : {0}]

NextCommissionIndex ==
  \/ \E c \in Clients, data \in KeyData : CommissionCreate(c, data)
  \/ \E c \in Clients : CommissionInsert(c)

SpecCommissionIndex == Init /\ [][NextCommissionIndex]_vars

\* ------------------------------------------------ IEEE-754 double arithmetic
\* A positive double is [h, m, l, e]: its 53 significand bits are the 13 bits
\* of h (the first one set), the 20 bits of m and the 20 bits of l; e is the
\* binary exponent of the first bit.
Limb == 1048576
HighOne == 4096

RECURSIVE Pow2(_)
Pow2(k) == IF k = 0 THEN 1 ELSE 2 * Pow2(k - 1)

\* the least k with c * 2^k >= n
RECURSIVE Shift(_, _)
Shift(c, n) == IF c >= n THEN 0 ELSE 1 + Shift(2 * c, n)

\* round to nearest, ties to even: the significand one higher when up holds
RoundUp(h, m, l, e, up) ==
  IF ~up THEN [h |-> h, m |-> m, l |-> l, e |-> e]
  ELSE IF l + 1 < Limb THEN [h |-> h, m |-> m, l |-> l + 1, e |-> e]
  ELSE IF m + 1 < Limb THEN [h |-> h, m |-> m + 1, l |-> 0, e |-> e]
  ELSE IF h + 1 < 2 * HighOne THEN [h |-> h + 1, m |-> 0, l |-> 0, e |-> e]
  ELSE [h |-> HighOne, m |-> 0, l |-> 0, e |-> e + 1]

\* c / n for integers 0 < c <= n < 2048, rounded to a double
FDiv(c, n) ==
  LET k == Shift(c, n)
      a == c * Pow2(k)
      t1 == (a % n) * HighOne
      t2 == (t1 % n) * Limb
      t3 == (t2 % n) * Limb
      l == t3 \div n
      r == t3 % n
  IN RoundUp(((a \div n) * HighOne) + (t1 \div n), t2 \div n, l, 0 - k,
             (2 * r > n) \/ (2 * r = n /\ (l % 2) = 1))

\* x * k for an integer 64 <= k < 128, rounded to a double
FMulInt(x, k) ==
  LET pl == x.l * k
      pm == (x.m * k) + (pl \div Limb)
      ph == (x.h * k) + (pm \div Limb)
      lo == pl % Limb
      mi == pm % Limb
      extra == IF ph >= 128 * HighOne THEN 7 ELSE 6
      d == Pow2(extra)
      rest == lo % d
      l == (lo \div d) + ((mi % d) * (Limb \div d))
      m == (mi \div d) + ((ph % d) * (Limb \div d))
  IN RoundUp(ph \div d, m, l, x.e + extra,
             (2 * rest > d) \/ (2 * rest = d /\ (l % 2) = 1))

\* Math.round of a positive double below 2048: the nearest integer, a tie
\* going up
MathRound(x) ==
  IF x.e < 0 - 1 THEN 0
  ELSE (x.h \div Pow2(12 - x.e)) + ((x.h \div Pow2(11 - x.e)) % 2)

\* Math.round((completedMilestones / this.milestones.length) * 100): the
\* division is rounded to a double, then the product, then Math.round
JSProgress(c, n) == IF c = 0 THEN 0 ELSE MathRound(FMulInt(FDiv(c, n), 100))


\* ------------------------------------------------------ the Project model
MaxMilestones == 40
\* values a caller writes into progress.actual; 101 fails the max validator
ProgressInputs == {0, 50, 100, 101}

\* this.milestones.filter(m => m.isCompleted).length
Completed_(ms) == Len(SelectSeq(ms, LAMBDA b : b))

\* projectSchema.pre('save'): progress.actual is derived from the milestones
\* when there is at least one, and left alone otherwise
ProjectPreSave(ms, actual) ==
  IF Len(ms) > 0 THEN JSProgress(Completed_(ms), Len(ms)) ELSE actual

\* save() of the document with milestones ms and progress.actual = actual:
\* validation (progress.actual in 0..100), the hook, the write
ProjectSave(ms, actual) ==
  /\ actual >= 0
  /\ actual <= 100
  /\ milestones' = ms
  /\ progressBefore' = actual
  /\ progressActual' = ProjectPreSave(ms, actual)
  /\ UNCHANGED exceptProject

\* The callers' changes.  Milestones are completed in order and reopened in
\* reverse order, so the completed ones form a prefix of the list (the hook
\* counts them, whatever their places).
ProjectPushMilestone(done) ==
  /\ Len(milestones) < MaxMilestones
  /\ done => Completed_(milestones) = Len(milestones)
  /\ ProjectSave(Append(milestones, done), progressActual)

ProjectRemoveMilestone ==
  /\ Len(milestones) > 0
  /\ ProjectSave(SubSeq(milestones, 1, Len(milestones) - 1), progressActual)

ProjectCompleteMilestone ==
  /\ Completed_(milestones) < Len(milestones)
  /\ ProjectSave([milestones EXCEPT ![Completed_(milestones) + 1] = TRUE],
                 progressActual)

ProjectReopenMilestone ==
  /\ Completed_(milestones) > 0
  /\ ProjectSave([milestones EXCEPT ![Completed_(milestones)] = FALSE],
                 progressActual)

\* a save that fails validation changes nothing
ProjectSetProgress(v) ==
  /\ v \in ProgressInputs
  /\ IF v >= 0 /\ v <= 100 THEN ProjectSave(milestones, v) ELSE UNCHANGED vars

NextProject ==
  \/ \E done \in BOOLEAN : ProjectPushMilestone(done)
  \/ ProjectRemoveMilestone
  \/ ProjectCompleteMilestone
  \/ ProjectReopenMilestone
  \/ \E v \in ProgressInputs : ProjectSetProgress(v)

SpecProject == Init /\ [][NextProject]_vars

\* ------------------------------------------------ the Express application
\* app.use('/api/<mount>', authMiddleware([...]), <mount>Routes): the roles
\* each mount admits; /api/auth is mounted with no middleware
AllowedRolesWrong ==
  [admin |-> {"admin"}, manager |-> {"admin", "manager"},
   partner |-> {"admin", "partner"}, staff |-> Roles,
   ai |-> {"admin", "manager"}]
AllowedRoles ==
  [admin |-> {"admin"}, manager |-> {"admin", "manager"},
   partner |-> {"admin", "partner"}, staff |-> {"admin", "manager", "staff"},
   ai |-> {"admin", "manager"}]
Protected == {"admin", "manager", "partner", "staff", "ai"}

\* the Authorization header: absent, a string jwt.verify rejects (malformed,
\* wrong signature, expired), or a token jwt.verify accepts, with its userId
Tokens ==
  {[kind |-> "none", userId |-> "none"], [kind |-> "invalid", userId |-> "none"]}
    \cup [kind : {"valid"}, userId : AccountIds]
\* the routes of a mount the model tells apart
Routes == {"me", "logout", "other"}

\* POST /api/auth/register stores a user with the role the body names
Register(a, role) ==
  /\ accounts[a] = "absent"
  /\ accounts' = [accounts EXCEPT ![a] = role]
  /\ UNCHANGED http
  /\ UNCHANGED exceptHttp

Respond(h, status) ==
  [h EXCEPT !.pc = "done", !.status = status, !.success = (status = 200)]

\* A request arrives.  On a protected mount authMiddleware runs up to its
\* await: no token answers 401, a token jwt.verify throws on is caught and
\* answers 401, otherwise User.findById is awaited.  On /api/auth the route
\* handler is next.
HttpRequest(mount, route, token) ==
  /\ http.pc \in {"idle", "done"}
  /\ LET h == [InitHttp EXCEPT !.mount = mount, !.route = route, !.token = token]
     IN http' =
          IF mount \notin Protected THEN [h EXCEPT !.pc = "handler"]
          ELSE IF token.kind = "none" THEN Respond(h, 401)
          ELSE IF token.kind = "invalid" THEN Respond(h, 401)
          ELSE [h EXCEPT !.pc = "findUser"]
  /\ UNCHANGED accounts
  /\ UNCHANGED exceptHttp

\* authMiddleware after await User.findById(decoded.userId): a rejection is
\* caught (401), no user answers 401, a role outside allowedRoles answers
\* 403, otherwise req.user = user and next()
AuthMiddlewareFindUser(ok) ==
  /\ http.pc = "findUser"
  /\ LET role == accounts[http.token.userId]
         h == [http EXCEPT !.found = IF ok THEN role ELSE "error"]
     IN http' =
          IF ~ok THEN Respond(h, 401)
          ELSE IF role = "absent" THEN Respond(h, 401)
          ELSE IF role \notin AllowedRoles[http.mount] THEN Respond(h, 403)
          ELSE [h EXCEPT !.pc = "handler",
                         !.user = [id |-> http.token.userId, role |-> role]]
  /\ UNCHANGED accounts
  /\ UNCHANGED exceptHttp

\* The route handler.  POST /logout and GET /me of the auth router read
\* req.user.id first: with req.user undefined that throws a TypeError, which
\* asyncHandler hands to the error handler (500).  Any other handler answers.
RouteHandler ==
  /\ http.pc = "handler"
  /\ http' =
       IF http.mount = "auth" /\ http.route \in {"me", "logout"}
            /\ http.user = NoUser
         THEN Respond([http EXCEPT !.ran = TRUE], 500)
         ELSE Respond([http EXCEPT !.ran = TRUE], 200)
  /\ UNCHANGED accounts
  /\ UNCHANGED exceptHttp

NextHttp ==
  \/ \E a \in AccountIds, role \in Roles : Register(a, role)
  \/ \E mount \in Mounts, route \in Routes, token \in Tokens :
       HttpRequest(mount, route, token)
  \/ \E ok \in BOOLEAN : AuthMiddlewareFindUser(ok)
  \/ RouteHandler

SpecHttp == Init /\ [][NextHttp]_vars

\* ------------------------------------------- the relational API controllers
\* async handlers whose body is try { await service(); res.json() }
\* catch { res.status(500).json() }
GuardedHandlers ==
  {"getProjects", "createProject", "getRewardFrames", "createRewardFrame",
   "calculateReward", "getInputData", "createInputData", "getComplaints",
   "createComplaint", "suggestRewardFrame", "applyRewardPolicy",
   "analyzeComplaint", "getLinkedProjects", "getProjectProgress",
   "getProjectTeam", "getProjectPerformance", "submitProjectReview",
   "nlpAnalyzeReview"}
\* verifyEmail: async, no try/catch
UnguardedHandlers == {"verifyEmail"}
\* cleanAndDetectMappingErrors: synchronous, no try/catch
SyncHandlers == {"cleanAndDetectMappingErrors"}
Handlers == GuardedHandlers \cup UnguardedHandlers \cup SyncHandlers
\* res.status(201) of the create* handlers, 200 otherwise
SuccessStatus(h) ==
  IF h \in {"createProject", "createRewardFrame", "createInputData",
            "createComplaint"} THEN 201 ELSE 200

Answer(q, status) ==
  [q EXCEPT !.pc = "settled", !.responses = q.responses + 1, !.status = status]

\* Express calls the handler.  The synchronous handler answers at once, or
\* throws and Express's default error handler answers 500.  verifyEmail
\* answers 400 for a token verifyToken rejects.  The others reach their await.
RelRequest(r, h, ok) ==
  /\ rel[r].pc = "idle"
  /\ LET q == [InitRel EXCEPT !.handler = h] IN
     rel' = [rel EXCEPT ![r] =
       IF h \in SyncHandlers THEN Answer(q, IF ok THEN 200 ELSE 500)
       ELSE IF h \in UnguardedHandlers /\ ~ok THEN Answer(q, 400)
       ELSE [q EXCEPT !.pc = "await"]]
  /\ UNCHANGED exceptRel

\* The awaited ORM or external call settles.  A guarded handler answers in
\* its try or in its catch.  An unguarded one answers when the call succeeds;
\* when it fails the handler's promise rejects with nobody awaiting it:
\* Express 4 ignores the promise and no response is ever sent, Express 5
\* passes the rejection to the error handler (500).
RelAwait(r, ok, express5) ==
  /\ rel[r].pc = "await"
  /\ rel' = [rel EXCEPT ![r] =
       IF ok THEN Answer(@, SuccessStatus(@.handler))
       ELSE IF @.handler \in UnguardedHandlers /\ ~express5
         THEN [@ EXCEPT !.pc = "settled"]
       ELSE Answer(@, 500)]
  /\ UNCHANGED exceptRel

NextRel ==
  \/ \E r \in Reqs, h \in Handlers, ok \in BOOLEAN : RelRequest(r, h, ok)
  \/ \E r \in Reqs, ok \in BOOLEAN, express5 \in BOOLEAN : RelAwait(r, ok, express5)

SpecRel == Init /\ [][NextRel]_vars

\* ------------------------------------------------ the frontend api instance
\* a response of the server: a status, or no response (network error, timeout)
Outcomes == {200, 401, 500, 0}
\* if (token): localStorage.getItem returned a token
HasTokenWrong(t) == TRUE
HasToken(t) == t # "none"

\* login stores the token; logout removes it
FeLogin ==
  /\ storedToken = "none"
  /\ storedToken' = "t1"
  /\ UNCHANGED fe
  /\ UNCHANGED exceptFe

FeLogout ==
  /\ storedToken # "none"
  /\ storedToken' = "none"
  /\ UNCHANGED fe
  /\ UNCHANGED exceptFe

\* api.get(...) / api.post(...): the request is sent
FeSend(r) ==
  /\ fe[r].pc = "idle"
  /\ fe' = [fe EXCEPT ![r] = [@ EXCEPT !.pc = "sent", !.sends = 1]]
  /\ UNCHANGED storedToken
  /\ UNCHANGED exceptFe

\* The response interceptor.  A success resolves.  A 401 on a request not yet
\* retried sets _retry and, when a token is stored, posts /auth/refresh with
\* plain axios; everything else rejects.
FeResponse(r, outcome) ==
  /\ fe[r].pc = "sent"
  /\ fe' = [fe EXCEPT ![r] =
       IF outcome = 200 THEN [@ EXCEPT !.pc = "resolved"]
       ELSE IF outcome = 401 /\ ~@.retry
         THEN IF HasToken(storedToken)
                THEN [@ EXCEPT !.pc = "refreshing", !.retry = TRUE,
                               !.refreshes = @ + 1, !.tokenSeen = storedToken]
                ELSE [@ EXCEPT !.pc = "rejected", !.retry = TRUE,
                               !.tokenSeen = storedToken]
       ELSE [@ EXCEPT !.pc = "rejected"]]
  /\ UNCHANGED storedToken
  /\ UNCHANGED exceptFe

\* The refresh call settles.  On success the new token is stored and the
\* original request is sent again through api; on failure the catch removes
\* the token, redirects to /login and the original error is rejected.
FeRefreshResponse(r, ok) ==
  /\ fe[r].pc = "refreshing"
  /\ IF ok
       THEN /\ storedToken' = "t2"
            /\ fe' = [fe EXCEPT ![r] = [@ EXCEPT !.pc = "sent", !.sends = @ + 1]]
       ELSE /\ storedToken' = "none"
            /\ fe' = [fe EXCEPT ![r] = [@ EXCEPT !.pc = "rejected"]]
  /\ UNCHANGED exceptFe

NextFe ==
  \/ FeLogin
  \/ FeLogout
  \/ \E r \in Reqs : FeSend(r)
  \/ \E r \in Reqs, outcome \in Outcomes : FeResponse(r, outcome)
  \/ \E r \in Reqs, ok \in BOOLEAN : FeRefreshResponse(r, ok)

\* every network call settles: axios resolves or rejects it (a response, a
\* network error or the timeout)
SpecFe ==
  /\ Init
  /\ [][NextFe]_vars
  /\ \A r \in Reqs :
       /\ WF_vars(\E outcome \in Outcomes : FeResponse(r, outcome))
       /\ WF_vars(\E ok \in BOOLEAN : FeRefreshResponse(r, ok))

\* ------------------------------------------------ the AI routes: scoring
FracMul(x, y) == Frac(x.num * y.num, x.den * y.den)
FracDiv(x, y) == Frac(x.num * y.den, x.den * y.num)
\* x <= y and x < y for fractions with positive denominators
FracLeq(x, y) == x.num * y.den <= y.num * x.den
FracLess(x, y) == x.num * y.den < y.num * x.den

\* the score fields of a PerformanceEvaluation row
EvalFields ==
  {"technicalSkills", "problemSolving", "communication", "teamwork",
   "leadership", "innovation", "reliability", "qualityOfWork",
   "meetingDeadlines", "overallScore"}

\* (eval.field || 0): a field the evaluation lacks counts 0
FieldOrZero(e, f) == IF f \in DOMAIN e THEN e[f] ELSE 0

\* evaluations.reduce((sum, eval) => sum + (eval.field || 0), 0)
RECURSIVE SumField(_, _)
SumField(evals, f) ==
  IF Len(evals) = 0 THEN 0
  ELSE FieldOrZero(Head(evals), f) + SumField(Tail(evals), f)

\* evaluations.length > 0 ? sum / evaluations.length : 6.0
AvgField(evals, f) ==
  IF Len(evals) > 0 THEN Frac(SumField(evals, f), Len(evals)) ELSE Frac(6, 1)

RECURSIVE SumSeq(_)
SumSeq(q) == IF Len(q) = 0 THEN 0 ELSE Head(q) + SumSeq(Tail(q))

\* bonuses.length > 0 ? sum of totalBonus / bonuses.length : 0
AvgBonus(bonuses) ==
  IF Len(bonuses) > 0 THEN Frac(SumSeq(bonuses), Len(bonuses)) ELSE Frac(0, 1)

\* a * 0.4 + b * 0.3 + c * 0.3, then times the role's factor
Blend(a, b, c, factor) ==
  FracMul(FracAdd(FracAdd(FracMul(a, Frac(4, 10)), FracMul(b, Frac(3, 10))),
                  FracMul(c, Frac(3, 10))),
          factor)

\* the switch on role.toLowerCase(), halved for a user with 3 projects or more
RoleScore(u, role) ==
  LET A(f) == AvgField(u.evals, f)
      score ==
        CASE role \in {"developer", "dev"} ->
               Blend(A("technicalSkills"), A("problemSolving"),
                     A("qualityOfWork"), Frac(8, 10))
          [] role \in {"team_lead", "leader"} ->
               Blend(A("leadership"), A("communication"), A("teamwork"),
                     Frac(9, 10))
          [] role \in {"project_manager", "manager"} ->
               Blend(A("leadership"), A("communication"), A("problemSolving"),
                     Frac(9, 10))
          [] role = "designer" ->
               Blend(A("innovation"), A("technicalSkills"), A("qualityOfWork"),
                     Frac(8, 10))
          [] role \in {"tester", "qa"} ->
               Blend(A("qualityOfWork"), A("problemSolving"), A("reliability"),
                     Frac(8, 10))
          [] role = "analyst" ->
               Blend(A("problemSolving"), A("communication"),
                     A("technicalSkills"), Frac(8, 10))
          [] OTHER ->
               Blend(A("overallScore"), AvgBonus(u.bonuses), A("teamwork"),
                     Frac(7, 10))
  IN IF u.workload < 3 THEN score ELSE FracMul(score, Frac(1, 2))

\* one element of userCapabilities
Capability(u, roles) ==
  [user |-> [id |-> u.id, department |-> u.department, position |-> u.position],
   capabilities |-> [f \in EvalFields \ {"overallScore"} |-> AvgField(u.evals, f)],
   averageScore |-> AvgField(u.evals, "overallScore"),
   averageBonus |-> AvgBonus(u.bonuses),
   isAvailable |-> u.workload < 3,
   roleScores |-> [k \in 1..Len(roles) |-> RoleScore(u, roles[k])],
   receivedEvaluations |-> u.evals,
   bonuses |-> u.bonuses]

UserCapabilities(users, roles) ==
  [k \in 1..Len(users) |-> Capability(users[k], roles)]

\* Array.prototype.sort((a, b) => b.key - a.key) on [key, item] pairs: stable,
\* greatest key first
RECURSIVE InsertDesc(_, _)
InsertDesc(p, sorted) ==
  IF Len(sorted) = 0 THEN <<p>>
  ELSE IF FracLess(Head(sorted).key, p.key) THEN <<p>> \o sorted
  ELSE <<Head(sorted)>> \o InsertDesc(p, Tail(sorted))

RECURSIVE SortDescFrom(_, _)
SortDescFrom(todo, sorted) ==
  IF Len(todo) = 0 THEN sorted
  ELSE SortDescFrom(Tail(todo), InsertDesc(Head(todo), sorted))

SortDesc(pairs) == SortDescFrom(pairs, <<>>)

Items(pairs) == [k \in 1..Len(pairs) |-> pairs[k].item]
Keyed(caps, K(_)) == [k \in 1..Len(caps) |-> [key |-> K(caps[k]), item |-> caps[k]]]
Take(q, n) == SubSeq(q, 1, IF n < Len(q) THEN n ELSE Len(q))
Min(a, b) == IF a < b THEN a ELSE b

ByAverageScore(c) == c.averageScore
ByLeadership(c) == c.capabilities["leadership"]
\* score / (bonus + 1)
ByPerformanceRatio(c) ==
  FracDiv(c.averageScore, FracAdd(c.averageBonus, Frac(1, 1)))

selectHighPerformanceTeam(caps, teamSize) ==
  Take(Items(SortDesc(Keyed(SelectSeq(caps, LAMBDA c : c.isAvailable),
                            ByAverageScore))), teamSize)

selectCostEffectiveTeam(caps, teamSize) ==
  Take(Items(SortDesc(Keyed(SelectSeq(caps, LAMBDA c : c.isAvailable),
                            ByPerformanceRatio))), teamSize)

\* a leader (leadership >= 7.0) first, then up to min(2, floor(teamSize / 3))
\* seniors (score >= 7.5), then the best of the rest up to teamSize
selectBalancedTeam(caps, teamSize) ==
  LET avail == SelectSeq(caps, LAMBDA c : c.isAvailable)
      leaders == Items(SortDesc(Keyed(
                   SelectSeq(avail, LAMBDA c :
                     FracLeq(Frac(7, 1), c.capabilities["leadership"])),
                   ByLeadership)))
      lead == Take(leaders, 1)
      Picked(t) == {t[k].user.id : k \in 1..Len(t)}
      seniors == Items(SortDesc(Keyed(
                   SelectSeq(avail, LAMBDA c :
                     /\ c.user.id \notin Picked(lead)
                     /\ FracLeq(Frac(15, 2), c.averageScore)),
                   ByAverageScore)))
      t2 == lead \o Take(seniors, Min(2, teamSize \div 3))
      juniors == Items(SortDesc(Keyed(
                   SelectSeq(avail, LAMBDA c : c.user.id \notin Picked(t2)),
                   ByAverageScore)))
      remainingSlots == teamSize - Len(t2)
  IN t2 \o Take(juniors, IF remainingSlots > 0 THEN remainingSlots ELSE 0)

RECURSIVE SumFrac(_)
SumFrac(q) == IF Len(q) = 0 THEN Frac(0, 1) ELSE FracAdd(Head(q), SumFrac(Tail(q)))

\* (departments.size / n) * 0.6 + (positions.size / n) * 0.4
calculateDiversityScore(team) ==
  IF Len(team) = 0 THEN Frac(0, 1)
  ELSE LET n == Len(team)
           departments == {team[k].user.department : k \in 1..n}
           positions == {team[k].user.position : k \in 1..n}
       IN FracAdd(FracMul(Frac(Cardinality(departments), n), Frac(6, 10)),
                  FracMul(Frac(Cardinality(positions), n), Frac(4, 10)))

\* avgPerformance * 0.5 + avgBonus * 0.3 + diversityScore * 0.2
calculateTeamScore(team) ==
  IF Len(team) = 0 THEN Frac(0, 1)
  ELSE LET n == Len(team)
           avgPerformance ==
             FracDiv(SumFrac([k \in 1..n |-> team[k].averageScore]), Frac(n, 1))
           avgBonus ==
             FracDiv(SumFrac([k \in 1..n |-> team[k].averageBonus]), Frac(n, 1))
       IN FracAdd(FracAdd(FracMul(avgPerformance, Frac(5, 10)),
                          FracMul(avgBonus, Frac(3, 10))),
                  FracMul(calculateDiversityScore(team), Frac(2, 10)))

\* the three strategies, scored and sorted by (a, b) => b.score - a.score
TeamRecommendationsWrong(caps, teamSize) ==
  [k \in 1..3 |->
     LET strategy == <<"balanced", "high_performance", "cost_effective">>[k]
         team == CASE k = 1 -> selectBalancedTeam(caps, teamSize)
                   [] k = 2 -> selectHighPerformanceTeam(caps, teamSize)
                   [] k = 3 -> selectCostEffectiveTeam(caps, teamSize)
     IN [strategy |-> strategy, team |-> team, score |-> calculateTeamScore(team)]]
TeamRecommendations(caps, teamSize) ==
  LET recs == [k \in 1..3 |->
        LET strategy == <<"balanced", "high_performance", "cost_effective">>[k]
            team == CASE k = 1 -> selectBalancedTeam(caps, teamSize)
                      [] k = 2 -> selectHighPerformanceTeam(caps, teamSize)
                      [] k = 3 -> selectCostEffectiveTeam(caps, teamSize)
        IN [key |-> calculateTeamScore(team),
            item |-> [strategy |-> strategy, team |-> team,
                      score |-> calculateTeamScore(team)]]]
  IN Items(SortDesc(recs))

\* ------------------------------------------------ the AI routes: handlers
AiRoutes == {"team-recommendation", "kpi-suggestion"}
\* body('projectId').isUUID(), body('requiredRoles' | 'teamMembers').isArray(),
\* body('teamSize').optional().isInt({ min: 1, max: 20 })
BodyValidWrong(b) == TRUE
BodyValid(b) ==
  /\ b.projectId # "not-a-uuid"
  /\ b.rolesIsArray
  /\ b.teamSize >= 1
  /\ b.teamSize <= 20

AiRespond(q, status) ==
  [q EXCEPT !.pc = "done", !.status = status, !.success = (status = 200)]

\* a Project row comes to exist
AiProjectCreated(p) ==
  /\ p \notin aiProjects
  /\ aiProjects' = aiProjects \cup {p}
  /\ UNCHANGED <<auditLog, ai>>
  /\ UNCHANGED exceptAi

\* the handler up to await Project.findByPk: validation errors answer 400
AiRequest(route, body) ==
  /\ ai.pc \in {"idle", "done"}
  /\ Len(auditLog) < MaxAuditLog
  /\ LET q == [InitAi EXCEPT !.route = route, !.body = body] IN
     ai' = IF ~BodyValid(body) THEN AiRespond(q, 400)
           ELSE [q EXCEPT !.pc = "findProject"]
  /\ UNCHANGED <<aiProjects, auditLog>>
  /\ UNCHANGED exceptAi

\* Project.findByPk settles: a rejection is caught (500), no project answers
\* 404, otherwise the users are read
AiFindProject(ok) ==
  /\ ai.pc = "findProject"
  /\ ai' = IF ~ok THEN AiRespond([ai EXCEPT !.lookup = "error"], 500)
           ELSE IF ai.body.projectId \notin aiProjects
             THEN AiRespond([ai EXCEPT !.lookup = "missing"], 404)
           ELSE [ai EXCEPT !.pc = "findUsers", !.lookup = "found"]
  /\ UNCHANGED <<aiProjects, auditLog>>
  /\ UNCHANGED exceptAi

\* User.findAll / the User.findByPk calls settle; the recommendation is
\* computed in the same continuation, up to await AuditLog.createLog
AiFindUsers(ok, users) ==
  /\ ai.pc = "findUsers"
  /\ ai' = IF ~ok THEN AiRespond(ai, 500)
           ELSE LET caps == UserCapabilities(users, ai.body.roles) IN
                [ai EXCEPT !.pc = "audit", !.users = users, !.caps = caps,
                           !.computed = TRUE,
                           !.recs = IF ai.route = "team-recommendation"
                                      THEN TeamRecommendations(caps, ai.body.teamSize)
                                      ELSE <<>>]
  /\ UNCHANGED <<aiProjects, auditLog>>
  /\ UNCHANGED exceptAi

\* AuditLog.createLog settles: the entry is written and the result sent, or
\* the rejection is caught (500)
AiAudit(ok) ==
  /\ ai.pc = "audit"
  /\ IF ok
       THEN /\ auditLog' = Append(auditLog, ai.route)
            /\ ai' = AiRespond([ai EXCEPT !.audits = @ + 1], 200)
       ELSE /\ ai' = AiRespond(ai, 500)
            /\ UNCHANGED auditLog
  /\ UNCHANGED aiProjects
  /\ UNCHANGED exceptAi

\* ---- inputs of the AI specification
AllScored(v) == [f \in EvalFields |-> v]
\* an evaluation with every field 8; one with every field 9 and no
\* technicalSkills; one with every field 5 and leadership 9
Evaluations ==
  [full |-> AllScored(8),
   noTechnical |-> [f \in EvalFields \ {"technicalSkills"} |-> 9],
   leader |-> [AllScored(5) EXCEPT !["leadership"] = 9]]
Candidates ==
  {[id |-> 1, department |-> "IT", position |-> "dev",
    evals |-> <<Evaluations.full>>, bonuses |-> <<10>>, workload |-> 0],
   [id |-> 2, department |-> "IT", position |-> "lead",
    evals |-> <<Evaluations.full, Evaluations.noTechnical>>, bonuses |-> <<>>,
    workload |-> 3],
   [id |-> 3, department |-> "HR", position |-> "dev",
    evals |-> <<>>, bonuses |-> <<20, 0>>, workload |-> 0],
   [id |-> 4, department |-> "HR", position |-> "qa",
    evals |-> <<Evaluations.leader>>, bonuses |-> <<>>, workload |-> 1]}
\* the rows User.findAll returns: any candidates, in any order
CandidateLists ==
  {<<>>}
    \cup {<<a>> : a \in Candidates}
    \cup {q \in [1..2 -> Candidates] : q[1] # q[2]}
    \cup {q \in [1..3 -> Candidates] : Cardinality({q[k] : k \in 1..3}) = 3}
AiBodies ==
  [projectId : {"p1", "p2", "not-a-uuid"},
   roles : {<<"developer">>, <<"leader", "support">>},
   rolesIsArray : BOOLEAN,
   teamSize : {0, 1, 3}]

NextAi ==
  \/ \E p \in {"p1"} : AiProjectCreated(p)
  \/ \E route \in AiRoutes, body \in AiBodies : AiRequest(route, body)
  \/ \E ok \in BOOLEAN : AiFindProject(ok)
  \/ \E ok \in BOOLEAN, users \in CandidateLists : AiFindUsers(ok, users)
  \/ \E ok \in BOOLEAN : AiAudit(ok)

SpecAi == Init /\ [][NextAi]_vars

\* ------------------------------------------------------ the weight tables
\* Weights are kept in hundredths (0.3 is 30), weighted scores in hundredths
\* of a point.
\* the KPI weights of each role: KPI, Quality, Efficiency, Teamwork,
\* Innovation, Project Progress (percent)
RoleWeights ==
  [developer |-> <<25, 20, 20, 15, 10, 10>>,
   marketing_specialist |-> <<30, 15, 20, 15, 15, 5>>,
   direct_mentor |-> <<20, 15, 15, 30, 10, 10>>,
   indirect_mentor |-> <<15, 15, 15, 25, 15, 15>>,
   hr_recruiter |-> <<35, 20, 25, 10, 5, 5>>,
   business_development |-> <<30, 15, 20, 20, 10, 5>>]
\* totalScore: kpiScore, qualityScore, efficiencyScore, teamworkScore,
\* innovationScore
TotalScoreWeightsWrong == <<30, 20, 20, 15, 25>>
TotalScoreWeights == <<30, 20, 20, 15, 15>>
\* projectScore: projectProgress, clientSatisfaction, deadlineAdherence
ProjectScoreWeights == <<30, 30, 40>>
\* baseKPIs of generateKPIsForMember, the weights of each category
BaseKPIWeights ==
  [technical |-> <<30, 20, 25, 15, 10>>,
   soft |-> <<30, 30, 40>>,
   project |-> <<40, 30, 30>>]

RECURSIVE Dot(_, _)
Dot(w, x) == IF Len(w) = 0 THEN 0 ELSE Head(w) * Head(x) + Dot(Tail(w), Tail(x))

\* the virtuals of a Commission
totalScore(performance) == Dot(TotalScoreWeights, performance)
projectScore(project) == Dot(ProjectScoreWeights, project)

\* adjustKPIsByLevel multiplies the targets; the weights are copied
adjustKPIsByLevel(base, level, priority) == base

\* the weights of a role are looked up
RoleLookup(role) ==
  /\ wt' = [wt EXCEPT !.role = role, !.roleWeights = RoleWeights[role]]
  /\ UNCHANGED exceptWt

\* a Commission with these metrics is read with its virtuals
CommissionScores(performance, project) ==
  /\ wt' = [wt EXCEPT !.performance = performance, !.project = project,
                      !.totalScore = totalScore(performance),
                      !.projectScore = projectScore(project)]
  /\ UNCHANGED exceptWt

\* generateKPIsForMember for a member of this capability level
GenerateKPIs(level, priority) ==
  /\ wt' = [wt EXCEPT !.level = level, !.priority = priority,
                      !.kpiWeights = adjustKPIsByLevel(BaseKPIWeights, level, priority)]
  /\ UNCHANGED exceptWt

\* metrics pass the schema's min 0, max 100
PerformanceInputs ==
  {[k \in 1..5 |-> v] : v \in {0, 50, 100}}
    \cup {<<99, 1, 50, 100, 0>>, <<100, 0, 0, 0, 0>>, <<0, 0, 0, 0, 100>>}
ProjectInputs ==
  {[k \in 1..3 |-> v] : v \in {0, 100}} \cup {<<50, 75, 25>>, <<0, 0, 100>>}

NextWt ==
  \/ \E role \in DOMAIN RoleWeights : RoleLookup(role)
  \/ \E performance \in PerformanceInputs, project \in ProjectInputs :
       CommissionScores(performance, project)
  \/ \E level \in {"expert", "senior", "intermediate", "junior"},
        priority \in {"low", "medium", "high", "critical"} :
       GenerateKPIs(level, priority)

SpecWt == Init /\ [][NextWt]_vars

\* ------------------------------------------------ the redis and database services
Helpers ==
  {"setKey", "getKey", "deleteKey", "keyExists", "setHashField",
   "getHashField", "getHashAll", "addToSortedSet", "getSortedSetRange"}
\* what each helper's catch returns
FallbackWrong ==
  [setKey |-> "false", getKey |-> "null", deleteKey |-> "false",
   keyExists |-> "false", setHashField |-> "false", getHashField |-> "null",
   getHashAll |-> "null", addToSortedSet |-> "false",
   getSortedSetRange |-> "[]"]
Fallback ==
  [setKey |-> "false", getKey |-> "null", deleteKey |-> "false",
   keyExists |-> "false", setHashField |-> "false", getHashField |-> "null",
   getHashAll |-> "{}", addToSortedSet |-> "false",
   getSortedSetRange |-> "[]"]
\* what each helper can return when its command succeeds
Returns ==
  [setKey |-> {"true"}, getKey |-> {"null", "value"},
   deleteKey |-> {"true", "false"}, keyExists |-> {"true", "false"},
   setHashField |-> {"true"}, getHashField |-> {"null", "value"},
   getHashAll |-> {"{}", "hash"}, addToSortedSet |-> {"true"},
   getSortedSetRange |-> {"[]", "list"}]

\* connectRedis up to await redisClient.connect(): createClient's result is
\* assigned to redisClient (a client that is not open); if createClient
\* throws, the catch logs and redisClient keeps its value
ConnectRedis(created) ==
  /\ proc.running
  /\ ~connecting.redis
  /\ redisClient # "open"
  /\ IF created
       THEN /\ redisClient' = "closed"
            /\ connecting' = [connecting EXCEPT !.redis = TRUE]
       ELSE UNCHANGED <<redisClient, connecting>>
  /\ UNCHANGED <<proc, call, shutdown>>
  /\ UNCHANGED exceptInfra

\* redisClient.connect() settles: connected, or the rejection is caught and
\* logged (the process goes on, redisClient stays the closed client)
ConnectRedisSettle(ok) ==
  /\ proc.running
  /\ connecting.redis
  /\ redisClient' = IF ok THEN "open" ELSE "closed"
  /\ connecting' = [connecting EXCEPT !.redis = FALSE]
  /\ UNCHANGED <<proc, call, shutdown>>
  /\ UNCHANGED exceptInfra

\* connectDB: mongoose.connect is awaited
ConnectDB ==
  /\ proc.running
  /\ ~connecting.db
  /\ shutdown.mongoose = "disconnected"
  /\ connecting' = [connecting EXCEPT !.db = TRUE]
  /\ UNCHANGED <<proc, redisClient, call, shutdown>>
  /\ UNCHANGED exceptInfra

\* mongoose.connect settles: connected, and connectDB registers its SIGINT
\* listener; a rejection is caught, logged and the process exits with code 1
ConnectDBSettle(ok) ==
  /\ proc.running
  /\ connecting.db
  /\ connecting' = [connecting EXCEPT !.db = FALSE]
  /\ proc' = IF ok THEN proc ELSE [running |-> FALSE, code |-> 1]
  /\ shutdown' =
       IF ok
         THEN [shutdown EXCEPT !.mongoose = "connected",
                 !.listeners = Append(@, "connectDB")]
         ELSE shutdown
  /\ UNCHANGED <<redisClient, call>>
  /\ UNCHANGED exceptInfra

\* a helper is called: with redisClient null it throws inside its try and the
\* catch returns the fallback; otherwise the command is awaited
HelperCall(h) ==
  /\ proc.running
  /\ call.pc \in {"idle", "done"}
  /\ call' =
       IF redisClient = "null"
         THEN [pc |-> "done", helper |-> h, client |-> redisClient,
               result |-> Fallback[h], threw |-> FALSE]
         ELSE [pc |-> "await", helper |-> h, client |-> redisClient,
               result |-> "none", threw |-> FALSE]
  /\ UNCHANGED <<proc, redisClient, connecting, shutdown>>
  /\ UNCHANGED exceptInfra

\* the command settles: on a client that was not open it rejects
\* (ClientClosedError); on an open one it succeeds or rejects; every
\* rejection is caught and the fallback returned
HelperSettle(ok, value) ==
  /\ proc.running
  /\ call.pc = "await"
  /\ value \in Returns[call.helper]
  /\ call' = [call EXCEPT !.pc = "done",
                !.result = IF ok /\ call.client = "open" THEN value
                           ELSE Fallback[call.helper]]
  /\ UNCHANGED <<proc, redisClient, connecting, shutdown>>
  /\ UNCHANGED exceptInfra

NextInfra ==
  \/ \E created \in BOOLEAN : ConnectRedis(created)
  \/ \E ok \in BOOLEAN : ConnectRedisSettle(ok)
  \/ ConnectDB
  \/ \E ok \in BOOLEAN : ConnectDBSettle(ok)
  \/ \E h \in Helpers : HelperCall(h)
  \/ \E ok \in BOOLEAN,
        value \in {"true", "false", "null", "value", "{}", "hash", "[]", "list"} :
       HelperSettle(ok, value)

SpecInfra == Init /\ [][NextInfra]_vars

\* ------------------------------------------------------------ shutdown
\* one SIGINT listener runs: server.js's logs and exits with code 0;
\* connectDB's starts mongoose.connection.close() and awaits it
Listener(l, st) ==
  IF l = "server"
    THEN [st EXCEPT !.proc = [running |-> FALSE, code |-> 0],
            !.shutdown.log = Append(@, "SIGINT received")]
    ELSE [st EXCEPT !.shutdown.mongoose = "closing"]

\* process.emit('SIGINT'): the listeners run synchronously in registration
\* order; process.exit does not return, so nothing runs after it
RECURSIVE Emit(_, _)
Emit(listeners, st) ==
  IF listeners = <<>> \/ ~st.proc.running
    THEN st
    ELSE Emit(Tail(listeners), Listener(Head(listeners), st))

Events == {"SIGINT", "closeResolved", "closeRejected"}

\* one turn of the event loop: the signal is delivered, or the close that
\* connectDB's listener awaits settles (logged and exit 0, or exit 1)
ProcessEvent(ev) ==
  /\ proc.running
  /\ ev # "SIGINT" => shutdown.mongoose = "closing"
  /\ LET st == [proc |-> proc, shutdown |-> shutdown]
         after ==
           CASE ev = "SIGINT" ->
                  Emit(shutdown.listeners,
                       [st EXCEPT !.shutdown.sigintWhenConnected =
                                    @ \/ shutdown.mongoose = "connected"])
             [] ev = "closeResolved" ->
                  [st EXCEPT !.proc = [running |-> FALSE, code |-> 0],
                     !.shutdown.mongoose = "closed",
                     !.shutdown.log =
                        Append(@, "MongoDB connection closed through app termination")]
             [] ev = "closeRejected" ->
                  [st EXCEPT !.proc = [running |-> FALSE, code |-> 1],
                     !.shutdown.log =
                        Append(@, "Error during MongoDB connection closure")]
     IN /\ proc' = after.proc
        /\ shutdown' = after.shutdown
  /\ UNCHANGED <<redisClient, connecting, call>>
  /\ UNCHANGED exceptInfra

NextShutdown ==
  \/ \E created \in BOOLEAN : ConnectRedis(created)
  \/ \E ok \in BOOLEAN : ConnectRedisSettle(ok)
  \/ ConnectDB
  \/ \E ok \in BOOLEAN : ConnectDBSettle(ok)
  \/ \E h \in Helpers : HelperCall(h)
  \/ \E ok \in BOOLEAN,
        value \in {"true", "false", "null", "value", "{}", "hash", "[]", "list"} :
       HelperSettle(ok, value)
  \/ \E ev \in Events : ProcessEvent(ev)

SpecShutdown == Init /\ [][NextShutdown]_vars

\* ------------------------------------------------------ POST /auth/login
LoginEmails == {"ok@x", "OK@x", "locked@x", "inactive@x", "both@x", "unknown@x"}
Passwords == {"right", "wrong"}
\* String.prototype.toLowerCase on the emails of the model
ToLowerCase(e) == IF e = "OK@x" THEN "ok@x" ELSE e
\* jwt.sign({ userId }, ...)
generateToken(userId) == [userId |-> userId]

\* res.status(status).json({ success, message, ... })
LoginRespond(q, status, message) ==
  [q EXCEPT !.pc = "done", !.status = status, !.success = (status = 200),
     !.message = message]
\* a rejected await reaches the error handler through asyncHandler
LoginError(q) == LoginRespond(q, 500, "Internal server error")

\* the checks on the document findOne returned, in the handler's order: the
\* message of the 401 answered, or "none" when the password is to be compared
AccountCheckWrong(user) ==
  IF ~user.exists THEN "Invalid credentials"
  ELSE IF ~user.isActive THEN "Account is inactive"
  ELSE "none"
AccountCheckReveals(user) ==
  IF ~user.exists THEN "User not found"
  ELSE IF user.isLocked THEN "Account is locked. Please try again later."
  ELSE IF ~user.isActive THEN "Account is inactive"
  ELSE "none"
AccountCheck(user) ==
  IF ~user.exists THEN "Invalid credentials"
  ELSE IF user.isLocked THEN "Account is locked. Please try again later."
  ELSE IF ~user.isActive THEN "Account is inactive"
  ELSE "none"

\* the request arrives: loginSchema.validate(req.body)
LoginRequest(r, email, password, valid) ==
  /\ login[r].pc = "idle"
  /\ login' =
       [login EXCEPT ![r] =
          IF valid
            THEN [InitLogin EXCEPT !.pc = "findOne", !.email = email,
                    !.password = password]
            ELSE LoginRespond(InitLogin, 400, "Validation error")]
  /\ UNCHANGED userDocs
  /\ UNCHANGED exceptLogin

\* User.findOne({ email: value.email.toLowerCase() }) settles, then the
\* not-found, isLocked and isActive checks in that order
LoginFindOne(r, ok) ==
  /\ login[r].pc = "findOne"
  /\ LET q == login[r]
         user == userDocs[ToLowerCase(q.email)]
     IN login' =
          [login EXCEPT ![r] =
             IF ~ok THEN LoginError(q)
             ELSE IF AccountCheck(user) # "none"
               THEN LoginRespond([q EXCEPT !.user = user], 401,
                                 AccountCheck(user))
             ELSE [q EXCEPT !.user = user, !.pc = "comparePassword"]]
  /\ UNCHANGED userDocs
  /\ UNCHANGED exceptLogin

\* user.comparePassword(value.password) settles
LoginComparePassword(r, ok) ==
  /\ login[r].pc = "comparePassword"
  /\ LET q == [login[r] EXCEPT !.compared = TRUE]
     IN login' =
          [login EXCEPT ![r] =
             IF ~ok THEN LoginError(q)
             ELSE IF q.password = q.user.password
               THEN [q EXCEPT !.pc = "resetLoginAttempts"]
               ELSE [q EXCEPT !.pc = "incLoginAttempts"]]
  /\ UNCHANGED userDocs
  /\ UNCHANGED exceptLogin

\* user.incLoginAttempts() settles (the counter goes up and the account may
\* become locked), then 401 'Invalid credentials'
LoginIncLoginAttempts(r, ok, locks) ==
  /\ login[r].pc = "incLoginAttempts"
  /\ LET q == login[r]
         e == ToLowerCase(q.email)
     IN /\ ok => userDocs[e].loginAttempts < MaxLoginAttempts
        /\ ~ok => ~locks
        /\ userDocs' =
             IF ok
               THEN [userDocs EXCEPT ![e].loginAttempts = @ + 1,
                                     ![e].isLocked = locks]
               ELSE userDocs
        /\ login' =
             [login EXCEPT ![r] =
                IF ok
                  THEN LoginRespond([q EXCEPT !.incremented = TRUE], 401,
                                    "Invalid credentials")
                  ELSE LoginError(q)]
  /\ UNCHANGED exceptLogin

\* user.resetLoginAttempts() settles, then generateToken and res.json
LoginResetLoginAttempts(r, ok) ==
  /\ login[r].pc = "resetLoginAttempts"
  /\ LET q == login[r]
         e == ToLowerCase(q.email)
     IN /\ userDocs' =
             IF ok THEN [userDocs EXCEPT ![e].loginAttempts = 0] ELSE userDocs
        /\ login' =
             [login EXCEPT ![r] =
                IF ok
                  THEN LoginRespond([q EXCEPT !.reset = TRUE,
                                       !.token = generateToken(q.user.id).userId],
                                    200, "Login successful")
                  ELSE LoginError(q)]
  /\ UNCHANGED exceptLogin

NextLogin ==
  \/ \E r \in Reqs, email \in LoginEmails, password \in Passwords,
        valid \in BOOLEAN : LoginRequest(r, email, password, valid)
  \/ \E r \in Reqs, ok \in BOOLEAN : LoginFindOne(r, ok)
  \/ \E r \in Reqs, ok \in BOOLEAN : LoginComparePassword(r, ok)
  \/ \E r \in Reqs, ok \in BOOLEAN, locks \in BOOLEAN :
       LoginIncLoginAttempts(r, ok, locks)
  \/ \E r \in Reqs, ok \in BOOLEAN : LoginResetLoginAttempts(r, ok)

SpecLogin == Init /\ [][NextLogin]_vars

\* ------------------------------------------------------------ AuthProvider
authReducer(state, action) ==
  CASE action.type = "LOGIN_START" -> [state EXCEPT !.loading = TRUE]
    [] action.type = "LOGIN_SUCCESS" ->
         [state EXCEPT !.user = action.payload.user,
                       !.token = action.payload.token,
                       !.isAuthenticated = TRUE, !.loading = FALSE]
    [] action.type = "LOGIN_FAILURE" ->
         [state EXCEPT !.user = "null", !.token = "null",
                       !.isAuthenticated = FALSE, !.loading = FALSE]
    [] action.type = "LOGOUT" ->
         [state EXCEPT !.user = "null", !.token = "null",
                       !.isAuthenticated = FALSE, !.loading = FALSE]
    [] action.type = "SET_USER" ->
         [state EXCEPT !.user = action.payload,
                       !.isAuthenticated = TRUE, !.loading = FALSE]
    [] action.type = "SET_LOADING" -> [state EXCEPT !.loading = action.payload]
    [] OTHER -> state

\* how a call can end: success, 401, or any other error (another status, a
\* network error, the timeout), all of which only reject
ApiOutcomes == {200, 401, 500}
\* the calls to routes that are '@access Private': they succeed only for a
\* request that carries a token
PrivateOps == {"checkAuth", "logout", "updateProfile", "refreshToken"}
\* api.get / api.post / api.put: the request interceptor adds the stored
\* token, if any, and the request is sent
Sent(token) == [pc |-> "sent", retry |-> FALSE, bearer |-> token # "null"]

\* what an operation does when its API call resolves with the backend's body
\* { success, data: { user, token } }: the new localStorage and reducer state
OnResolve(op, storage, state) ==
  CASE op = "checkAuth" ->
         [storage |-> storage,
          state |-> authReducer(state, [type |-> "SET_USER",
                                        payload |-> "undefined"])]
    [] op = "login" ->
         [storage |-> "tL",
          state |-> authReducer(state, [type |-> "LOGIN_SUCCESS",
                       payload |-> [user |-> "u", token |-> "tL"]])]
    [] op = "logout" ->
         [storage |-> "null",
          state |-> authReducer(state, [type |-> "LOGOUT"])]
    [] op = "updateProfile" ->
         [storage |-> storage,
          state |-> authReducer(state, [type |-> "SET_USER", payload |-> "u"])]
    [] op = "refreshToken" ->
         [storage |-> "tR",
          state |-> authReducer(state, [type |-> "LOGIN_SUCCESS",
                       payload |-> [user |-> "u", token |-> "tR"]])]

\* what an operation's catch (and finally) does when its API call rejects
OnRejectWrong(op, storage, state) == [storage |-> storage, state |-> state]
OnReject(op, storage, state) ==
  CASE op = "login" ->
         [storage |-> storage,
          state |-> authReducer(state, [type |-> "LOGIN_FAILURE"])]
    [] op = "updateProfile" -> [storage |-> storage, state |-> state]
    [] OTHER ->
         [storage |-> "null",
          state |-> authReducer(state, [type |-> "LOGOUT"])]

\* the page loads (first visit, reload, or the redirect to /login): the
\* provider mounts with initialState and the checkAuth effect is scheduled;
\* the calls of the page that was left are gone
Mount ==
  /\ authState' = initialState(localStorage)
  /\ authOp' = [op \in Ops |->
                  IF op = "checkAuth" THEN [IdleOp EXCEPT !.pc = "effect"]
                  ELSE IdleOp]
  /\ navigating' = FALSE
  /\ UNCHANGED localStorage
  /\ UNCHANGED exceptAuth

\* the mount effect: with a stored token getCurrentUser is called, otherwise
\* SET_LOADING false
CheckAuth ==
  /\ authOp["checkAuth"].pc = "effect"
  /\ IF localStorage # "null"
       THEN /\ authOp' = [authOp EXCEPT !["checkAuth"] = Sent(localStorage)]
            /\ UNCHANGED authState
       ELSE /\ authOp' = [authOp EXCEPT !["checkAuth"] = IdleOp]
            /\ authState' = authReducer(authState, [type |-> "SET_LOADING",
                                                    payload |-> FALSE])
  /\ UNCHANGED <<localStorage, navigating>>
  /\ UNCHANGED exceptAuth

\* login(credentials), once the mount effect has run and while the page is
\* not being left: LOGIN_START, then authAPI.login
Login ==
  /\ authOp["checkAuth"].pc # "effect" /\ ~navigating
  /\ authOp["login"].pc = "idle"
  /\ authState' = authReducer(authState, [type |-> "LOGIN_START"])
  /\ authOp' = [authOp EXCEPT !["login"] = Sent(localStorage)]
  /\ UNCHANGED <<localStorage, navigating>>
  /\ UNCHANGED exceptAuth

\* logout(): authAPI.logout
Logout ==
  /\ authOp["checkAuth"].pc # "effect" /\ ~navigating
  /\ authOp["logout"].pc = "idle"
  /\ authOp' = [authOp EXCEPT !["logout"] = Sent(localStorage)]
  /\ UNCHANGED <<localStorage, authState, navigating>>
  /\ UNCHANGED exceptAuth

\* updateProfile(profileData): authAPI.updateProfile
UpdateProfile ==
  /\ authOp["checkAuth"].pc # "effect" /\ ~navigating
  /\ authOp["updateProfile"].pc = "idle"
  /\ authOp' = [authOp EXCEPT !["updateProfile"] = Sent(localStorage)]
  /\ UNCHANGED <<localStorage, authState, navigating>>
  /\ UNCHANGED exceptAuth

\* refreshToken(): without a stored token it throws into its own catch,
\* otherwise authAPI.refreshToken
RefreshToken ==
  /\ authOp["checkAuth"].pc # "effect" /\ ~navigating
  /\ authOp["refreshToken"].pc = "idle"
  /\ IF localStorage # "null"
       THEN /\ authOp' = [authOp EXCEPT !["refreshToken"] = Sent(localStorage)]
            /\ UNCHANGED <<localStorage, authState>>
       ELSE /\ localStorage' = OnReject("refreshToken", localStorage, authState).storage
            /\ authState' = OnReject("refreshToken", localStorage, authState).state
            /\ UNCHANGED authOp
  /\ UNCHANGED navigating
  /\ UNCHANGED exceptAuth

\* the call's response passes the response interceptor: a success resolves;
\* a 401 not yet retried sets _retry and, with a stored token, posts
\* /auth/refresh; everything else rejects into the operation's catch
ApiResponse(op, outcome) ==
  /\ authOp[op].pc = "sent"
  /\ (outcome = 200 /\ op \in PrivateOps) => authOp[op].bearer
  /\ LET refreshes == outcome = 401 /\ ~authOp[op].retry /\ localStorage # "null"
         after == IF outcome = 200
                    THEN OnResolve(op, localStorage, authState)
                    ELSE OnReject(op, localStorage, authState)
     IN /\ authOp' =
             [authOp EXCEPT ![op] =
                IF refreshes THEN [@ EXCEPT !.pc = "refreshing", !.retry = TRUE]
                ELSE IdleOp]
        /\ localStorage' = IF refreshes THEN localStorage ELSE after.storage
        /\ authState' = IF refreshes THEN authState ELSE after.state
  /\ UNCHANGED navigating
  /\ UNCHANGED exceptAuth

\* the interceptor's refresh settles: the new token is stored and the call
\* is sent again, or the token is removed, the page is redirected to /login
\* and the original error rejects into the operation's catch
ApiRefreshResponse(op, ok) ==
  /\ authOp[op].pc = "refreshing"
  /\ IF ok
       THEN /\ localStorage' = "tR"
            /\ authOp' = [authOp EXCEPT ![op] = [Sent("tR") EXCEPT !.retry = TRUE]]
            /\ UNCHANGED <<authState, navigating>>
       ELSE /\ localStorage' = OnReject(op, "null", authState).storage
            /\ authState' = OnReject(op, "null", authState).state
            /\ authOp' = [authOp EXCEPT ![op] = IdleOp]
            /\ navigating' = TRUE
  /\ UNCHANGED exceptAuth

NextAuth ==
  \/ Mount
  \/ CheckAuth
  \/ Login
  \/ Logout
  \/ UpdateProfile
  \/ RefreshToken
  \/ \E op \in Ops, outcome \in ApiOutcomes : ApiResponse(op, outcome)
  \/ \E op \in Ops, ok \in BOOLEAN : ApiRefreshResponse(op, ok)

\* the mount effect runs, and the network calls of checkAuth and login
\* settle (a response, a network error or the timeout)
SpecAuth ==
  /\ Init
  /\ [][NextAuth]_vars
  /\ WF_vars(CheckAuth)
  /\ \A op \in {"checkAuth", "login"} :
       /\ WF_vars(\E outcome \in ApiOutcomes : ApiResponse(op, outcome))
       /\ WF_vars(\E ok \in BOOLEAN : ApiRefreshResponse(op, ok))

\* ------------------------------------------------------- Google OAuth login
GoogleEmails == {"admin@x", "a@x", "b@x"}
\* the unique index "email" of the users table rejects a second row
EmailTakenWrong(email) == FALSE
EmailTaken(email) == \E k \in 1..Len(usersTable) : usersTable[k].email = email
\* models.users.findOne({ where: { email } }): the row, or null
FindByEmail(email) ==
  IF EmailTaken(email)
    THEN usersTable[CHOOSE k \in 1..Len(usersTable) : usersTable[k].email = email]
    ELSE NoRow

\* Google calls the verify callback with the profile
GoogleVerify(r, email) ==
  /\ google[r].pc \in {"idle", "done"}
  /\ google' = [google EXCEPT ![r] =
                  [InitGoogle EXCEPT !.pc = "findOne", !.email = email]]
  /\ UNCHANGED usersTable
  /\ UNCHANGED exceptGoogle

\* findOne settles: an existing user is handed to done, a missing one is to
\* be created, a rejection goes to done(err, null)
GoogleFindOne(r, ok) ==
  /\ google[r].pc = "findOne"
  /\ LET q == google[r]
         row == FindByEmail(q.email)
     IN google' =
          [google EXCEPT ![r] =
             IF ~ok THEN [q EXCEPT !.pc = "done", !.err = TRUE]
             ELSE IF row # NoRow
               THEN [q EXCEPT !.pc = "done", !.found = row, !.user = row]
             ELSE [q EXCEPT !.pc = "create"]]
  /\ UNCHANGED usersTable
  /\ UNCHANGED exceptGoogle

\* models.users.create settles: the row is inserted with system_role
\* EMPLOYEE and handed to done; a duplicate email or another database error
\* rejects and goes to done(err, null)
GoogleCreate(r, ok) ==
  /\ google[r].pc = "create"
  /\ LET q == google[r]
         row == [id |-> Len(usersTable) + 1, email |-> q.email,
                 system_role |-> "EMPLOYEE"]
     IN IF ok /\ ~EmailTaken(q.email)
          THEN /\ usersTable' = Append(usersTable, row)
               /\ google' = [google EXCEPT ![r] =
                    [q EXCEPT !.pc = "done", !.user = row, !.created = TRUE]]
          ELSE /\ UNCHANGED usersTable
               /\ google' = [google EXCEPT ![r] =
                    [q EXCEPT !.pc = "done", !.err = TRUE]]
  /\ UNCHANGED exceptGoogle

NextGoogle ==
  \/ \E r \in Reqs, email \in GoogleEmails : GoogleVerify(r, email)
  \/ \E r \in Reqs, ok \in BOOLEAN : GoogleFindOne(r, ok)
  \/ \E r \in Reqs, ok \in BOOLEAN : GoogleCreate(r, ok)

SpecGoogle == Init /\ [][NextGoogle]_vars

\* --------------------------------------------------------- setKey / getKey
\* the strings of the model, some of which are valid JSON text
Strings ==
  {[type |-> "string", text |-> t] : t \in {"hello", "123", "true", "null", "{}"}}
\* the objects of the model: {} and [1,2]
Objects == {[type |-> "object", text |-> t] : t \in {"{}", "[1,2]"}}
\* JSON.stringify of an object
JSONStringify(v) == v.text
\* the texts JSON.parse accepts, and the value each denotes
JsonTexts == {"123", "true", "null", "{}", "[1,2]"}
JSONParse(t) ==
  CASE t = "123" -> [type |-> "number", text |-> t]
    [] t = "true" -> [type |-> "boolean", text |-> t]
    [] t = "null" -> JsNull
    [] OTHER -> [type |-> "object", text |-> t]
\* typeof value === 'object' ? JSON.stringify(value) : value
Serialize(v) == IF v.type = "object" THEN JSONStringify(v) ELSE v.text
\* try { return JSON.parse(value) } catch { return value }
Deserialize(t) ==
  IF t \in JsonTexts THEN JSONParse(t) ELSE [type |-> "string", text |-> t]

\* setKey(key, value, expireTime): set or setEx stores the serialized value
\* and true is returned; a rejected command stores nothing (false)
SetKey(key, value, expires, ok) ==
  /\ redisStore' =
       IF ok
         THEN [redisStore EXCEPT ![key] =
                 [stored |-> Serialize(value), value |-> value]]
         ELSE redisStore
  /\ UNCHANGED lastGet
  /\ UNCHANGED exceptStore

\* getKey(key): null for a missing key or a rejected command, otherwise the
\* stored string parsed as JSON, or the string itself when it does not parse
GetKey(key, ok) ==
  /\ lastGet' =
       [pc |-> "done", key |-> key, ok |-> ok,
        result |-> IF ~ok \/ redisStore[key].stored = "nil"
                     THEN JsNull
                     ELSE Deserialize(redisStore[key].stored)]
  /\ UNCHANGED redisStore
  /\ UNCHANGED exceptStore

NextStore ==
  \/ \E key \in Keys, value \in Strings \cup Objects, expires \in BOOLEAN,
        ok \in BOOLEAN : SetKey(key, value, expires, ok)
  \/ \E key \in Keys, ok \in BOOLEAN : GetKey(key, ok)

SpecStore == Init /\ [][NextStore]_vars

\* ------------------------------------------------- reward claims (C3..C6, C9)
\* the reward rows that reference calculation c
RewardRowsOf(c) == SelectSeq(rewards, LAMBDA w : w.calculation_id = c)
\* the member rows of project pid, as the table holds them
MemberRowsOf(pid) == SelectSeq(project_members, LAMBDA m : m.project_id = pid)

RECURSIVE SumAmounts(_)
SumAmounts(rows) ==
  IF rows = <<>> THEN Frac(0, 1)
  ELSE FracAdd(rows[1].amount, SumAmounts(Tail(rows)))

\* a request whose calculateReward returned { calculation_id, perMember }
\* for a project with at least one member row
Completed(r) ==
  /\ req[r].pc = "done"
  /\ req[r].res = "ok"
  /\ Len(req[r].members) >= 1

\* C3: when calculateReward completes without error for a project with
\* N >= 1 members, the amounts of the reward rows of its calculation add up
\* to total_reward_pool (exactly, in exact arithmetic).
C3_SumEqualsPool ==
  \A r \in Reqs : Completed(r) =>
    SumAmounts(RewardRowsOf(req[r].calculation))
      = Frac(req[r].data.total_reward_pool, 1)

\* three members share a pool of 100: the share is not a whole number
C3_Witness ==
  \E r \in Reqs :
    /\ Completed(r)
    /\ Len(req[r].members) = 3
    /\ req[r].data.total_reward_pool = 100
    /\ Len(RewardRowsOf(req[r].calculation)) = 3

\* C4: when calculateReward completes without error for a project with
\* N >= 1 member rows, its calculation has exactly one reward row per member
\* row of that project (the rows the call read), in order and for the same
\* users, the calculation row is the one the call created for the request's
\* project and pool, and every amount is total_reward_pool / N; 900,000 over
\* 3 members gives 300,000 each.
C4_OneRowPerMember ==
  \A r \in Reqs : Completed(r) =>
    LET q == req[r]
        n == Len(q.members)
        rows == RewardRowsOf(q.calculation)
        pid == q.data.project_id
    IN /\ n <= Len(MemberRowsOf(pid))
       /\ q.members = SubSeq(MemberRowsOf(pid), 1, n)
       /\ q.calculation \in 1..Len(reward_calculations)
       /\ reward_calculations[q.calculation].project_id = pid
       /\ reward_calculations[q.calculation].total_reward_pool
            = q.data.total_reward_pool
       /\ Len(rows) = n
       /\ \A k \in 1..n :
            /\ rows[k].user_id = q.members[k].user_id
            /\ rows[k].amount.num * n = q.data.total_reward_pool * rows[k].amount.den
       /\ (q.data.total_reward_pool = 900000 /\ n = 3) =>
            \A k \in 1..n : rows[k].amount = [num |-> 300000, den |-> 1]

\* the example of the specification, with another project's member present
C4_Witness ==
  \E r \in Reqs :
    /\ Completed(r)
    /\ Len(req[r].members) = 2
    /\ req[r].data.total_reward_pool = 900000
    /\ Len(project_members) = 3
    /\ \A k \in 1..2 :
         RewardRowsOf(req[r].calculation)[k].amount = [num |-> 450000, den |-> 1]

\* C5: no rollback.  When the creation of the k-th reward row fails, the
\* caller gets the 500 response while the calculation row and the k-1 reward
\* rows created before stay in the tables, fewer than the members read; a
\* calculation of a finished request has fewer rows than members only then.
C5_NoRollback ==
  \A r \in Reqs : (req[r].pc = "done" /\ req[r].calculation # 0) =>
    LET q == req[r]
        rows == RewardRowsOf(q.calculation)
    IN /\ q.calculation \in 1..Len(reward_calculations)
       /\ reward_calculations[q.calculation].id = q.calculation
       /\ q.res \in {"ok", "500"}
       /\ q.res = "500" => (Len(rows) = q.i - 1 /\ Len(rows) < Len(q.members))
       /\ Len(rows) < Len(q.members) => q.res = "500"

\* the second of three creations failed: one reward row for three members
C5_Witness ==
  \E r \in Reqs :
    /\ req[r].pc = "done"
    /\ req[r].res = "500"
    /\ req[r].i = 2
    /\ Len(req[r].members) = 3
    /\ Len(RewardRowsOf(req[r].calculation)) = 1
    /\ req[r].calculation \in 1..Len(reward_calculations)

StatusOrder == <<"PRELIMINARY", "PENDING_APPROVAL", "APPROVED", "PAID">>
StatusStep(s, t) ==
  \E k \in 1..(Len(StatusOrder) - 1) : s = StatusOrder[k] /\ t = StatusOrder[k + 1]

\* C6: every reward calculation is created in status PRELIMINARY, rows are
\* never removed, and a step changes the status of an existing calculation
\* only to the next status of PRELIMINARY -> PENDING_APPROVAL -> APPROVED ->
\* PAID (no operation of the service changes it at all).
C6_StatusStepwise ==
  [][/\ Len(reward_calculations') >= Len(reward_calculations)
     /\ \A k \in 1..Len(reward_calculations) :
          \/ reward_calculations'[k].status = reward_calculations[k].status
          \/ StatusStep(reward_calculations[k].status, reward_calculations'[k].status)
     /\ \A k \in (Len(reward_calculations) + 1)..Len(reward_calculations') :
          reward_calculations'[k].status = "PRELIMINARY"]_vars

\* two calculations exist, both still PRELIMINARY after their rewards were made
C6_Witness ==
  /\ Len(reward_calculations) = 2
  /\ \A k \in 1..2 : reward_calculations[k].status = "PRELIMINARY"
  /\ Len(rewards) >= 1
  /\ \A r \in Reqs : req[r].pc = "done"

\* C9: no calculation has two reward rows with the same user_id.
C9_OneRewardPerCalcUser ==
  \A i, j \in 1..Len(rewards) :
    (i # j /\ rewards[i].calculation_id = rewards[j].calculation_id)
      => rewards[i].user_id # rewards[j].user_id

\* --------------------------------------------- Commission claims (C1, C2, C7, C8)
\* C1: after any save the stored finalAmount equals baseSalary + totalBonus
\* + adjustmentAmount, with the totalBonus that save stored.
C1_FinalAmountIsSum ==
  \A k \in 1..Len(commissions) :
    commissions[k]["finalAmount"]
      = commissions[k]["baseSalary"] + commissions[k]["totalBonus"]
          + commissions[k]["adjustmentAmount"]

\* C2: after any save totalBonus equals performanceBonus + projectBonus +
\* qualityBonus + innovationBonus, whatever totalBonus held before the save.
C2_TotalBonusIsSum ==
  \A k \in 1..Len(commissions) :
    commissions[k]["totalBonus"]
      = commissions[k]["performanceBonus"] + commissions[k]["projectBonus"]
          + commissions[k]["qualityBonus"] + commissions[k]["innovationBonus"]

\* a save that started with the caller's totalBonus of 7 stored the sum 3
C2_Witness ==
  \E c \in Clients :
    /\ cli[c].pc = "done"
    /\ cli[c].res = "ok"
    /\ cli[c].before \in StaleTotals
    /\ cli[c].id \in 1..Len(commissions)
    /\ commissions[cli[c].id]["totalBonus"] = 3
    /\ commissions[cli[c].id]["innovationBonus"] = 1

CommissionOrder == <<"draft", "calculated", "pending_approval", "approved", "paid">>
\* one step forward, into the disputed branch, or out of it
CommissionStep(s, t) ==
  \/ \E k \in 1..(Len(CommissionOrder) - 1) :
       s = CommissionOrder[k] /\ t = CommissionOrder[k + 1]
  \/ t = "disputed"
  \/ s = "disputed"

\* C7: a Commission starts in status draft and no save moves its status
\* other than one step along draft -> calculated -> pending_approval ->
\* approved -> paid, or into (or out of) disputed.
C7_StatusForward ==
  [][/\ \A k \in 1..Len(commissions) :
          \/ commissions'[k]["status"] = commissions[k]["status"]
          \/ CommissionStep(commissions[k]["status"], commissions'[k]["status"])
     /\ \A k \in (Len(commissions) + 1)..Len(commissions') :
          commissions'[k]["status"] = "draft"]_vars

UniqueKeys ==
  \A i, j \in 1..Len(commissions) :
    i # j => ~SameKey(commissions[i], commissions[j])

\* C8: no two stored Commission documents have the same (period.year,
\* period.month, employee), under any interleaving of creations; an insert
\* of a key already stored fails and stores nothing, and no step removes or
\* rewrites the key of a stored document.
C8_UniquePeriodEmployee ==
  /\ []UniqueKeys
  /\ [][\A c \in Clients :
          (cli[c].pc = "insert" /\ cli'[c].pc = "done") =>
            IF \E k \in 1..Len(commissions) : SameKey(commissions[k], cli[c].doc)
              THEN cli'[c].res = "E11000" /\ commissions' = commissions
              ELSE cli'[c].res = "ok"
                     /\ commissions' = Append(commissions, cli[c].doc)]_vars

\* both clients created a document for the same key; one insert was refused
C8_Witness ==
  /\ cli["c1"].pc = "done"
  /\ cli["c1"].res = "E11000"
  /\ cli["c2"].pc = "done"
  /\ cli["c2"].res = "ok"
  /\ Len(commissions) = 2
  /\ commissions[2]["month"] = 2
  /\ commissions[2]["employee"] = 2

\* ------------------------------------------------------ Project claim (C10)
\* round(100 * c / n) in exact arithmetic, a tie going up
ExactRound(c, n) == (200 * c + n) \div (2 * n)

\* C10 as stated: after every save of a Project with at least one milestone
\* progress.actual equals round(100 * completed / milestones), whatever it
\* was set to before, and lies in 0..100; with no milestones the save leaves
\* progress.actual as it was.
C10_ProgressIsExactRound ==
  LET n == Len(milestones)
      c == Completed_(milestones)
  IN /\ n >= 1 => (progressActual = ExactRound(c, n) /\ progressActual \in 0..100)
     /\ n = 0 => progressActual = progressBefore

\* ------------------------------------------- authentication claims (C11, C12)
\* C11: on a mount under authMiddleware the route handler runs only for a
\* token that verifies, whose userId is an existing user with a role the
\* mount allows, and req.user is that user; any other request is answered
\* 401 (no token, invalid token, unknown user) or 403 (role not allowed)
\* without the handler being invoked.
MountRoles ==
  [admin |-> {"admin"}, manager |-> {"admin", "manager"},
   partner |-> {"admin", "partner"}, staff |-> {"admin", "manager", "staff"},
   ai |-> {"admin", "manager"}]
C11_HandlerOnlyWhenAuthorized ==
  http.mount \in DOMAIN MountRoles =>
    /\ http.ran =>
         /\ http.token.kind = "valid"
         /\ http.found \in MountRoles[http.mount]
         /\ http.user = [id |-> http.token.userId, role |-> http.found]
    /\ (http.pc = "done" /\ ~http.ran) =>
         /\ http.user = NoUser
         /\ http.status = IF http.token.kind = "valid"
                               /\ http.found \in Roles
                               /\ http.found \notin MountRoles[http.mount]
                            THEN 403 ELSE 401

\* a staff user was refused with 403 on /api/ai
C11_Witness ==
  /\ http.pc = "done"
  /\ http.mount = "ai"
  /\ http.found = "staff"
  /\ http.status = 403
  /\ ~http.ran

\* C12: with a valid Bearer token of an existing user GET /api/auth/me and
\* POST /api/auth/logout answer success: true.
C12_PrivateAuthRoutesSucceed ==
  (/\ http.pc = "done"
   /\ http.mount = "auth"
   /\ http.route \in {"me", "logout"}
   /\ http.token.kind = "valid"
   /\ accounts[http.token.userId] # "absent")
    => (http.status = 200 /\ http.success)

\* ------------------------------------------------ response claim (C13)
\* C13: every request to a relational-API handler gets exactly one HTTP
\* response, a failed ORM or external call included (as a 500): once the
\* handler has run to its end one response has been sent.
C13_ExactlyOneResponse ==
  \A r \in Reqs : rel[r].pc = "settled" => rel[r].responses = 1

\* ------------------------------------------------ frontend claim (C14)
FeSettled(r) == fe[r].pc \in {"resolved", "rejected"}
Composite(team) ==
  IF Len(team) = 0 THEN Frac(0, 1)
  ELSE LET n == Len(team)
           perf == SumFrac([k \in 1..n |-> team[k].averageScore])
           bonus == SumFrac([k \in 1..n |-> team[k].averageBonus])
           departments == Cardinality({team[k].user.department : k \in 1..n})
           positions == Cardinality({team[k].user.position : k \in 1..n})
       IN Frac((50 * perf.num * bonus.den)
                 + (30 * bonus.num * perf.den)
                 + (2 * ((6 * departments) + (4 * positions)) * perf.den * bonus.den),
               100 * n * perf.den * bonus.den)

\* C15: in a team-recommendation result the three strategies are listed by
\* non-increasing composite score, recommendedTeam (the first) has the
\* maximum score, every score is the composite of its team and an empty team
\* scores 0.
C15_BestTeamFirst ==
  (ai.route = "team-recommendation" /\ ai.computed) =>
    /\ {ai.recs[k].strategy : k \in 1..Len(ai.recs)}
         = {"balanced", "high_performance", "cost_effective"}
    /\ \A k \in 1..Len(ai.recs) :
         /\ FracLeq(ai.recs[k].score, ai.recs[1].score)
         /\ k > 1 => FracLeq(ai.recs[k].score, ai.recs[k - 1].score)
         /\ ai.recs[k].score = Composite(ai.recs[k].team)
         /\ Len(ai.recs[k].team) = 0 => ai.recs[k].score = Frac(0, 1)

\* the sort moved a strategy other than balanced to the front, strictly
\* ahead of the last one
C15_Witness ==
  /\ ai.route = "team-recommendation"
  /\ ai.computed
  /\ ai.recs[1].strategy # "balanced"
  /\ FracLess(ai.recs[3].score, ai.recs[1].score)

\* the value a field has in an evaluation, 6 where the evaluation lacks it
FieldOrSix(e, f) == IF f \in DOMAIN e THEN e[f] ELSE 6
RECURSIVE SumFieldOrSix(_, _)
SumFieldOrSix(evals, f) ==
  IF Len(evals) = 0 THEN 0
  ELSE FieldOrSix(Head(evals), f) + SumFieldOrSix(Tail(evals), f)

\* C16: in every candidate's capability averages a field with no score
\* counts 6.0, for a candidate with no evaluations and for an evaluation
\* that lacks the field alike.
C16_UnscoredCountsSix ==
  ai.computed =>
    \A k \in 1..Len(ai.caps) : \A f \in EvalFields \ {"overallScore"} :
      ai.caps[k].capabilities[f]
        = IF Len(ai.users[k].evals) = 0 THEN Frac(6, 1)
          ELSE Frac(SumFieldOrSix(ai.users[k].evals, f), Len(ai.users[k].evals))

\* C19: an invalid body is answered 400 and a projectId of no existing
\* project 404 with success false; in both cases no audit entry is written
\* and no recommendation is computed.
C19_RejectedBeforeWork ==
  ai.pc = "done" =>
    /\ ~(/\ ai.body.projectId # "not-a-uuid"
         /\ ai.body.rolesIsArray
         /\ ai.body.teamSize \in 1..20) => ai.status = 400
    /\ ai.lookup = "missing" <=> ai.status = 404
    /\ ai.status \in {400, 404} =>
         /\ ~ai.success
         /\ ai.audits = 0
         /\ ~ai.computed
         /\ ai.recs = <<>>

\* a well-formed request for a project that does not exist was answered 404
C19_Witness ==
  /\ ai.pc = "done"
  /\ ai.status = 404
  /\ ai.body.projectId = "p2"
  /\ ai.body.rolesIsArray
  /\ Len(auditLog) > 0

\* ------------------------------------------------ weight claim (C17)
\* C17: the six KPI weights of every role sum to 100%; the totalScore and
\* the projectScore weights each sum to 1.0, so both scores lie in 0..100
\* for metrics in 0..100; the weights of each KPI category of
\* generateKPIsForMember sum to 1.0.
C17_WeightsSumToTotal ==
  /\ wt.role # "none" => SumSeq(wt.roleWeights) = 100
  /\ SumSeq(TotalScoreWeights) = 100
  /\ SumSeq(ProjectScoreWeights) = 100
  /\ wt.totalScore >= 0
  /\ wt.totalScore <= 100 * 100
  /\ wt.projectScore >= 0
  /\ wt.projectScore <= 100 * 100
  /\ wt.level # "none" =>
       \A c \in DOMAIN wt.kpiWeights : SumSeq(wt.kpiWeights[c]) = 100

\* every metric 100: both scores are 100; a role and the KPIs were looked up
C17_Witness ==
  /\ wt.role = "hr_recruiter"
  /\ wt.performance = [k \in 1..5 |-> 100]
  /\ wt.project = [k \in 1..3 |-> 100]
  /\ wt.totalScore = 100 * 100
  /\ wt.projectScore = 100 * 100
  /\ DOMAIN wt.kpiWeights = {"technical", "soft", "project"}

\* ------------------------------------------------ idempotency claim (C18)
\* C18: calculateReward is not idempotent.  Two completed calls with the same
\* body have two distinct reward_calculations rows, each with one reward row
\* per member it read (2 * N rows for N members), and no call changes or
\* removes a row an earlier call wrote.
C18_RepeatAddsRows ==
  /\ [](\A r \in Reqs, q \in Reqs :
          (r # q /\ Completed(r) /\ Completed(q) /\ req[r].data = req[q].data) =>
            /\ req[r].calculation # req[q].calculation
            /\ Len(SelectSeq(reward_calculations,
                             LAMBDA c : c.id = req[r].calculation)) = 1
            /\ Len(RewardRowsOf(req[r].calculation)) = Len(req[r].members)
            /\ Len(RewardRowsOf(req[r].calculation))
                 + Len(RewardRowsOf(req[q].calculation))
                 = Len(req[r].members) + Len(req[q].members))
  /\ [][/\ Len(rewards') >= Len(rewards)
        /\ Len(reward_calculations') >= Len(reward_calculations)
        /\ \A i \in 1..Len(rewards) : rewards'[i] = rewards[i]
        /\ \A i \in 1..Len(reward_calculations) :
             reward_calculations'[i] = reward_calculations[i]]_vars

\* the same request twice for a project with two members: two calculations,
\* four reward rows
C18_Witness ==
  /\ Completed("r1")
  /\ Completed("r2")
  /\ req["r1"].data = req["r2"].data
  /\ Len(req["r1"].members) = 2
  /\ Len(req["r2"].members) = 2
  /\ Len(reward_calculations) = 2
  /\ Len(rewards) = 4

\* ------------------------------------------------ optional Redis claim (C20)
\* C20: a failed connectRedis neither ends the process nor throws; a helper
\* called while redisClient is not connected (connectRedis never called, or
\* failed) returns its fallback (false for setKey, deleteKey, keyExists,
\* setHashField, addToSortedSet; null for getKey, getHashField; {} for
\* getHashAll; [] for getSortedSetRange) and never throws; the process ends
\* only by a failed connectDB, with code 1.
C20_RedisOptional ==
  /\ [](/\ ~call.threw
        /\ (call.pc = "done" /\ call.client # "open") =>
             call.result =
               [setKey |-> "false", getKey |-> "null", deleteKey |-> "false",
                keyExists |-> "false", setHashField |-> "false",
                getHashField |-> "null", getHashAll |-> "{}",
                addToSortedSet |-> "false",
                getSortedSetRange |-> "[]"][call.helper]
        /\ ~proc.running => proc.code = 1)
  /\ [][/\ (connecting.redis /\ ~connecting'.redis) => proc'.running
        /\ (proc.running /\ ~proc'.running) =>
             (connecting.db /\ ~connecting'.db)]_vars

\* connectRedis failed, the process runs, and getHashAll returned {}
C20_Witness ==
  /\ proc.running
  /\ redisClient = "closed"
  /\ ~connecting.redis
  /\ call.pc = "done"
  /\ call.helper = "getHashAll"
  /\ call.client = "closed"
  /\ call.result = "{}"

\* ------------------------------------------------ graceful shutdown claim (C21)
\* C21: when SIGINT arrives after the database connection was established,
\* the process exits only after the Mongoose connection close has completed
\* and 'MongoDB connection closed through app termination' was logged.
C21_CloseBeforeExit ==
  (shutdown.sigintWhenConnected /\ ~proc.running) =>
    /\ shutdown.mongoose = "closed"
    /\ \E k \in 1..Len(shutdown.log) :
         shutdown.log[k] = "MongoDB connection closed through app termination"

\* ------------------------------------------------------ login claims (C22, C23)
\* C22: POST /auth/login issues a token only when the body validated, a user
\* with that email exists, the account is not locked, it is active and the
\* password matches, checked in that order; for a locked or inactive account
\* no token is issued even with the correct password, the password is not
\* compared, and the login-attempt counter is neither incremented nor reset.
C22_TokenOnlyAfterAllChecks ==
  /\ [](\A r \in Reqs :
          LET q == login[r]
          IN /\ q.token # "none" =>
                  /\ q.status = 200
                  /\ q.email # "none"
                  /\ q.user.exists /\ ~q.user.isLocked /\ q.user.isActive
                  /\ q.compared /\ q.password = q.user.password
                  /\ q.token = q.user.id
             /\ (q.pc = "done" /\ q.user.exists
                   /\ (q.user.isLocked \/ ~q.user.isActive)) =>
                  /\ q.token = "none" /\ q.status = 401
                  /\ ~q.compared /\ ~q.incremented /\ ~q.reset
                  /\ q.message = IF q.user.isLocked
                                   THEN "Account is locked. Please try again later."
                                   ELSE "Account is inactive")
  /\ [][\A r \in Reqs :
          (login[r].pc = "findOne" /\ login'[r].pc = "done"
             /\ login'[r].user.exists) => userDocs' = userDocs]_vars

\* a login with the correct password for an account that a failed login
\* locked is refused
C22_Witness ==
  \E r \in Reqs :
    /\ login[r].pc = "done"
    /\ login[r].password = "right"
    /\ login[r].user.isLocked
    /\ login[r].user.loginAttempts > 0
    /\ login[r].status = 401

\* the request named an email with no account and was answered by the handler
UnknownEmailLogin(q) ==
  /\ q.pc = "done" /\ q.status # 500
  /\ q.email # "none"
  /\ ~userDocs[ToLowerCase(q.email)].exists
\* the request named an active, unlocked account with a wrong password and
\* was answered by the handler
WrongPasswordLogin(q) ==
  /\ q.pc = "done" /\ q.status # 500
  /\ q.user.exists /\ ~q.user.isLocked /\ q.user.isActive
  /\ q.password # q.user.password

\* C23: a login naming an unknown email and a login naming an existing
\* active, unlocked account with a wrong password get the same status and
\* body: 401, success false, 'Invalid credentials', no token.
C23_UnknownEmailIndistinguishable ==
  \A a \in Reqs, b \in Reqs :
    (UnknownEmailLogin(login[a]) /\ WrongPasswordLogin(login[b])
       /\ login[a].password = login[b].password) =>
      /\ login[a].status = 401 /\ login[b].status = 401
      /\ ~login[a].success /\ ~login[b].success
      /\ login[a].message = "Invalid credentials"
      /\ login[b].message = "Invalid credentials"
      /\ login[a].token = "none" /\ login[b].token = "none"

C23_Witness ==
  /\ UnknownEmailLogin(login["r1"])
  /\ WrongPasswordLogin(login["r2"])
  /\ login["r1"].password = login["r2"].password
  /\ login["r2"].incremented

\* ------------------------------------------------ AuthProvider claims (C24-C26)
\* C24: in every reachable state of the AuthProvider, isAuthenticated is true
\* only if both user and token in the state are set (not null).
C24_AuthenticatedHasUserAndToken ==
  authState.isAuthenticated =>
    /\ authState.user \notin {"null", "undefined"}
    /\ authState.token # "null"

\* no auth operation is in flight and no redirect is pending
AuthIdle == (\A op \in Ops : authOp[op].pc = "idle") /\ ~navigating
\* C25: whenever no auth operation is in flight, the token in the
\* AuthProvider state equals the token in localStorage.
C25_StateTokenIsStoredToken ==
  AuthIdle => authState.token = localStorage

\* C26: the loading flag always becomes false again (after mount on every
\* path and after every login call), unless the page is reloaded for ever.
C26_LoadingEnds ==
  \/ []<><<Mount>>_vars
  \/ authState.loading ~> ~authState.loading

\* mounted with a stored token, the user fetch succeeded (SET_USER) and
\* loading is false
C26_Witness ==
  /\ AuthIdle
  /\ ~authState.loading
  /\ authState.isAuthenticated
  /\ authState.user = "undefined"
  /\ authState.token = localStorage

\* ------------------------------------------------ Google login claim (C27)
\* C27: after any interleaving of Google logins the users table holds at
\* most one row per email; a login for an email that already has a row
\* returns that row and creates nothing; a newly created row has
\* system_role EMPLOYEE.
C27_OneRowPerEmail ==
  /\ [](/\ \A i \in 1..Len(usersTable), j \in 1..Len(usersTable) :
             usersTable[i].email = usersTable[j].email => i = j
        /\ \A r \in Reqs :
             (google[r].pc = "done" /\ google[r].found # NoRow) =>
               /\ google[r].user = google[r].found
               /\ ~google[r].created /\ ~google[r].err
               /\ \E k \in 1..Len(usersTable) : usersTable[k] = google[r].found)
  /\ [][/\ Len(usersTable') >= Len(usersTable)
        /\ SubSeq(usersTable', 1, Len(usersTable)) = usersTable
        /\ Len(usersTable') > Len(usersTable) =>
             /\ Len(usersTable') = Len(usersTable) + 1
             /\ usersTable'[Len(usersTable')].system_role = "EMPLOYEE"
        /\ \A r \in Reqs :
             (google[r].pc = "findOne" /\ google'[r].found # NoRow) =>
               usersTable' = usersTable]_vars

\* two concurrent first-time logins with the same email: one created the
\* row, the other was rejected by the unique index
C27_Witness ==
  /\ google["r1"].pc = "done" /\ google["r2"].pc = "done"
  /\ google["r1"].email = "a@x" /\ google["r2"].email = "a@x"
  /\ google["r1"].created
  /\ google["r2"].err /\ google["r2"].found = NoRow
  /\ Len(usersTable) = 2

\* ------------------------------------------------ round-trip claim (C28)
\* C28: for every key and every value that is an object or a string
\* (including strings that are valid JSON text), a successful setKey
\* followed by getKey of that key returns a value equal to the one set, of
\* the same type.
C28_RoundTrip ==
  [][\A k \in Keys :
       (redisStore[k].stored # "nil" /\ lastGet'.pc = "done"
          /\ lastGet'.key = k /\ lastGet'.ok /\ UNCHANGED redisStore) =>
         lastGet'.result = redisStore[k].value]_vars

====
